---- MODULE Spec2Model ----
(***************************************************************************)
(* Replica discovery and registration of monolith/agent_service            *)
(* (replica_manager.py): the Watcher's membership cache and its queries,   *)
(* the data-watch callback, the reconciliation sweep, the Updater's        *)
(* registration, and the connection Listener's pause/resume protocol.      *)
(***************************************************************************)
EXTENDS Integers, Sequences, FiniteSets, TLC

VARIABLES
  conf,        \* AgentConfig fields read by the code (static per run)
  replicas,    \* ReplicaWatcher.replicas: task-path -> rnode -> ReplicaMeta
  qret,        \* the last query made and what it returned
  zk_nodes,    \* the coordination store: replica node -> its data and owner
  watched,     \* the replica nodes a DataWatch is installed on
  events,      \* data-watch callbacks the client has yet to make, oldest first
  last,        \* the last data-watch callback made and how it ended
  born_empty,  \* the existing replica nodes that were created with no bytes
  zk_state,    \* the last KazooState the client notified the Listener of
  has_lost,    \* ZKListener._has_lost
  should_poll, \* ReplicaWatcher._should_poll
  should_update,      \* ReplicaUpdater._should_update
  should_reregister,  \* ReplicaUpdater._should_reregister
  lst_pc,      \* where the Listener's call is: "idle" or in its sleep(5)
  poll_pc,     \* where the sweep thread (_poll) is
  upd_pc,      \* where the health-push thread (_updater) is
  rr_pc,       \* where the reconnect thread (_reregister) is
  reg_calls,   \* register() calls of the reconnect thread since the last reconnection
  ran_paused,  \* the loops whose work body was started while the state was LOST
  zk_tasks,    \* the coordination store: the task nodes (they outlive their children)
  replicas_tmp,            \* _poll: the snapshot built from the direct reads
  need_register_replicas,  \* _poll: the disappeared own paths still to re-create
  sweep_log,   \* what the last two sweeps did
  lock,        \* ReplicaWatcher._lock: "free", or the thread that holds it
  updater,     \* per process: ReplicaUpdater's replica_id, meta table and position
  sequence,    \* the store's sequence counter of the entry task node
  mgr,         \* where the caller of ReplicaManager.start() / stop() is
  has_stop,    \* ReplicaWatcher._has_stop and ReplicaUpdater._has_stop
  model_status,  \* the health source: role -> the state get_model_status reports
  upd,         \* _updater / _do_update: the role in hand, its replica_meta, its writes
  tree         \* the watches installed by watch_data and by the children-watch callbacks

\* the Watcher's cache, the store and its watches
datavars == <<conf, replicas, qret, zk_nodes, watched, events, last, born_empty>>
\* the pause/resume protocol and the background threads
connvars == <<zk_state, has_lost, should_poll, should_update, should_reregister,
              lst_pc, poll_pc, upd_pc, rr_pc, reg_calls, ran_paused>>
\* the sweep thread's locals, the task nodes and the record of the sweeps
sweepvars == <<zk_tasks, replicas_tmp, need_register_replicas, sweep_log, lock>>
\* the registering processes and the store's sequence counter
\* ReplicaManager's caller, the stop flags, the health source, _do_update's locals
mgrvars == <<mgr, has_stop, model_status, upd, tree>>
regvars == <<updater, sequence, mgrvars>>
vars == <<datavars, connvars, sweepvars, regvars>>

(***************************************************************************)
(* Data model                                                              *)
(***************************************************************************)

\* ModelState names used by ReplicaMeta.stat
UNKNOWN == "UNKNOWN"
AVAILABLE == "AVAILABLE"
UNAVAILABLE == "UNAVAILABLE"
ModelState == {UNKNOWN, AVAILABLE, UNAVAILABLE}

\* TFSServerType / ServerType.Name(..).lower()
PS == "ps"
ENTRY == "entry"
DENSE == "dense"
ServerTypes == {PS, ENTRY, DENSE}

\* An address "host:port" is kept as the list of its ':'-separated parts, so
\* that str.split(':') is what the code computes.  "[::]:p" splits into
\* "[", "", "]", "p".
Addr4(host, port) == <<host, port>>
Addr6(port) == <<"[", "", "]", port>>

\* ReplicaMeta(address, address_ipv6, stat, archon_address, archon_address_ipv6)
ReplicaMeta(host, grpc_port, archon_port, stat) ==
  [address |-> Addr4(host, grpc_port),
   address_ipv6 |-> Addr6(grpc_port),
   stat |-> stat,
   archon_address |-> Addr4(host, archon_port),
   archon_address_ipv6 |-> Addr6(archon_port)]

\* ReplicaMeta.get_address(use_archon, address_family)
get_address(m, use_archon, address_family) ==
  IF use_archon
    THEN (IF address_family = "ipv6" THEN m.archon_address_ipv6 ELSE m.archon_address)
    ELSE (IF address_family = "ipv6" THEN m.address_ipv6 ELSE m.address)

\* A task path <prefix>/[<idc>:<cluster>/]<server_type>:<index> is kept as its
\* parsed fields; idc = cluster = "" when the path has no locality segment.
TaskPath(idc, cluster, st, idx) == [idc |-> idc, cluster |-> cluster, st |-> st, idx |-> idx]

\* idc/cluster filter values of a query; NoneArg stands for Python's None.
NoneArg == "None"

\* ZKPath.ship_in(idc, cluster): absent filters are wildcards.
ship_in(tp, idc, cluster) ==
  /\ (idc = NoneArg \/ idc = tp.idc)
  /\ (cluster = NoneArg \/ cluster = tp.cluster)

\* dc_flag = zk_path.ship_in(idc, cluster) if self._conf.dc_aware else True
dc_flag(tp, idc, cluster) == IF conf.dc_aware THEN ship_in(tp, idc, cluster) ELSE TRUE

(***************************************************************************)
(* Digit strings: node names and replica ids                               *)
(***************************************************************************)

\* str(n) for 0 <= n < 100, as the list of its decimal digits
Str(n) == IF n < 10 THEN <<n>> ELSE <<n \div 10, n % 10>>

RECURSIVE Zeros(_)
Zeros(k) == IF k <= 0 THEN <<>> ELSE <<0>> \o Zeros(k - 1)

\* f'{n:0<w>d}': zero-padded to width w
Pad(n, w) == Zeros(w - Len(Str(n))) \o Str(n)

\* int(s) of a digit string
RECURSIVE ParseInt(_)
ParseInt(s) == IF Len(s) = 0 THEN 0 ELSE 10 * ParseInt(SubSeq(s, 1, Len(s) - 1)) + s[Len(s)]

\* rnode = str(int(os.path.basename(path)))
Rnode(name) == Str(ParseInt(name))

(***************************************************************************)
(* Queries of the Watcher                                                  *)
(***************************************************************************)

\* A Python list built by iterating a dict: the order is the dict's, which the
\* model fixes to one enumeration of the keys.
RECURSIVE SeqOfSet(_)
SeqOfSet(S) ==
  IF S = {} THEN <<>>
  ELSE LET x == CHOOSE y \in S : TRUE IN <<x>> \o SeqOfSet(S \ {x})

RECURSIVE Flatten(_)
Flatten(ss) == IF Len(ss) = 0 THEN <<>> ELSE Head(ss) \o Flatten(Tail(ss))

Range(s) == {s[i] : i \in 1..Len(s)}

\* a filter that only drops the replicas known to be down
IsAvailable_NotUnavailable(m) == m.stat # UNAVAILABLE

\* the filter of every query: pm.stat == ModelState.AVAILABLE
IsAvailable(m) == m.stat = AVAILABLE

\* [m.get_address(..) for m in replicas.values() if m.stat == ModelState.AVAILABLE]
AvailableAddrs(rs) ==
  LET ks == SeqOfSet({r \in DOMAIN rs : IsAvailable(rs[r])})
  IN  [i \in 1..Len(ks) |-> get_address(rs[ks[i]], conf.use_archon, conf.address_family)]

\* the lists of the matching task paths, concatenated in the dict's order
AddrsOfPaths(cache, paths) ==
  LET ps == SeqOfSet(paths)
  IN  Flatten([i \in 1..Len(ps) |-> AvailableAddrs(cache[ps[i]])])

\* the key of get_all_replicas' result: location/task when dc_aware, else task
ResultKey(tp) ==
  IF conf.dc_aware THEN [idc |-> tp.idc, cluster |-> tp.cluster, st |-> tp.st, idx |-> tp.idx]
  ELSE [idc |-> "", cluster |-> "", st |-> tp.st, idx |-> tp.idx]

\* ReplicaWatcher.get_all_replicas(server_type, idc, cluster)
get_all_replicas(cache, st, idc, cluster) ==
  LET match == {tp \in DOMAIN cache : tp.st = st /\ dc_flag(tp, idc, cluster)}
      keys == {ResultKey(tp) : tp \in match}
  IN  [k \in keys |->
         AddrsOfPaths(cache, {tp \in match : ResultKey(tp) = k})]

\* ReplicaWatcher.get_replicas(server_type, task, idc, cluster)
get_replicas(cache, st, task, idc, cluster) ==
  LET match == {tp \in DOMAIN cache : tp.st = st /\ tp.idx = task /\ dc_flag(tp, idc, cluster)}
  IN  AddrsOfPaths(cache, match)

\* the list built by get_replica before it picks the shape of its return value
get_replica_list(cache, st, task, replica, idc, cluster) ==
  LET match == {tp \in DOMAIN cache : tp.st = st /\ tp.idx = task /\ dc_flag(tp, idc, cluster)}
      only == [tp \in match |->
                 [r \in {x \in DOMAIN cache[tp] : ParseInt(x) = replica} |-> cache[tp][r]]]
  IN  AddrsOfPaths(only, match)

\* a get_replica that hands out the first address whenever there is one
get_replica_First(cache, st, task, replica, idc, cluster) ==
  LET result == get_replica_list(cache, st, task, replica, idc, cluster)
  IN  IF Len(result) = 0 THEN [shape |-> "None", addrs |-> <<>>]
      ELSE [shape |-> "str", addrs |-> <<result[1]>>]

\* ReplicaWatcher.get_replica: None, one address, or the list
get_replica(cache, st, task, replica, idc, cluster) ==
  LET result == get_replica_list(cache, st, task, replica, idc, cluster)
  IN  IF Len(result) = 0 THEN [shape |-> "None", addrs |-> <<>>]
      ELSE IF Len(result) = 1 THEN [shape |-> "str", addrs |-> result]
      ELSE [shape |-> "list", addrs |-> result]

\* ReplicaWatcher.get_replicas_with_extra_info: a dict address -> TargetExtraInfo;
\* when two replicas share an address, dict.update keeps one of them.
get_replicas_with_extra_info(cache, st, task, idc, cluster) ==
  LET match == {tp \in DOMAIN cache : tp.st = st /\ tp.idx = task /\ dc_flag(tp, idc, cluster)}
      hits == {h \in UNION {{<<tp, r>> : r \in DOMAIN cache[tp]} : tp \in match} :
                 IsAvailable(cache[h[1]][h[2]])}
      addr(h) == get_address(cache[h[1]][h[2]], conf.use_archon, conf.address_family)
      info(h) == [idc |-> h[1].idc, cluster |-> h[1].cluster, replica_id |-> ParseInt(h[2])]
  IN  [a \in {addr(h) : h \in hits} |-> info(CHOOSE h \in hits : addr(h) = a)]

(***************************************************************************)
(* Configuration                                                           *)
(***************************************************************************)

MIXED == "mixed"

\* AgentConfig as the code reads it; the ports are the text put after ':'.
AgentConfig(dc_aware, use_archon, address_family) ==
  [dc_aware |-> dc_aware, use_archon |-> use_archon, address_family |-> address_family,
   deploy_type |-> MIXED, num_ps |-> 2, num_shard |-> 1, shard_id |-> 0,
   dense_alone |-> FALSE, idc |-> "lf", cluster |-> "c1",
   tfs_entry_port |-> "8710", tfs_entry_archon_port |-> "8720",
   tfs_ps_port |-> "8711", tfs_ps_archon_port |-> "8721",
   tfs_dense_port |-> "8712", tfs_dense_archon_port |-> "8722",
   tfs_port_grpc |-> "8710", replica_id |-> 1]

(***************************************************************************)
(* The data-watch callback                                                 *)
(***************************************************************************)

\* Node data: Python None, b'' or the bytes of a serialized ReplicaMeta.
NoMeta == ReplicaMeta("", "", "", UNKNOWN)
NoneData == [kind |-> "None", meta |-> NoMeta]
EmptyData == [kind |-> "empty", meta |-> NoMeta]
\* bytes(meta.to_json(), encoding='utf-8')
serialize(m) == [kind |-> "json", meta |-> m]
\* ReplicaMeta.deserialize(data) / ReplicaMeta.from_json(str(value))
deserialize(data) == data.meta

\* data is None or len(data) == 0
IsEmptyData(data) == data.kind \in {"None", "empty"}

\* event is None on the first call; otherwise event.type
INITIAL == "initial"
CREATED == "CREATED"
DELETED == "DELETED"
CHANGED == "CHANGED"
NONE == "NONE"
CHILD == "CHILD"

HasEntry(cache, tp, rnode) == tp \in DOMAIN cache /\ rnode \in DOMAIN cache[tp]

\* self.replicas[task_path][rnode] = meta, creating the task path's dict if asked
PutEntry(cache, tp, rnode, m) ==
  [t \in DOMAIN cache \cup {tp} |->
     IF t = tp
       THEN [r \in (IF tp \in DOMAIN cache THEN DOMAIN cache[tp] ELSE {}) \cup {rnode} |->
               IF r = rnode THEN m ELSE cache[tp][r]]
       ELSE cache[t]]

\* a delete that leaves the emptied task path behind
DelEntry_KeepKey(cache, tp, rnode) ==
  IF tp \notin DOMAIN cache THEN cache
  ELSE [t \in DOMAIN cache |->
          IF t = tp THEN [r \in DOMAIN cache[tp] \ {rnode} |-> cache[tp][r]] ELSE cache[t]]

\* del self.replicas[task_path][rnode]; del self.replicas[task_path] when it is empty
DelEntry(cache, tp, rnode) ==
  IF tp \notin DOMAIN cache THEN cache
  ELSE LET rest == DOMAIN cache[tp] \ {rnode} IN
       IF rest = {} THEN [t \in DOMAIN cache \ {tp} |-> cache[t]]
       ELSE [t \in DOMAIN cache |-> IF t = tp THEN [r \in rest |-> cache[tp][r]] ELSE cache[t]]

\* a state change that is lost
MarkUnknown_Keep(m) == m

\* meta.stat = ModelState.UNKNOWN
MarkUnknown(m) == [m EXCEPT !.stat = UNKNOWN]

\* a callback that treats a second empty payload as the node's removal
data_watch_Tombstone(cache, tp, name, data, type) ==
  LET rnode == Rnode(name)
      found == HasEntry(cache, tp, rnode)
  IN
  IF IsEmptyData(data) /\ ~found THEN [cache |-> cache, outcome |-> "return"]
  ELSE IF type = DELETED \/ (IsEmptyData(data) /\ cache[tp][rnode].stat = UNKNOWN)
    THEN [cache |-> DelEntry(cache, tp, rnode), outcome |-> "done"]
  ELSE IF IsEmptyData(data)
    THEN [cache |-> PutEntry(cache, tp, rnode, MarkUnknown(cache[tp][rnode])), outcome |-> "done"]
  ELSE IF type \in {INITIAL, CREATED} \/ tp \in DOMAIN cache
    THEN [cache |-> PutEntry(cache, tp, rnode, deserialize(data)), outcome |-> "done"]
  ELSE [cache |-> cache, outcome |-> "KeyError"]

\* ReplicaWatcher._get_data_watch.data_watch(data, state, event) for the node
\* `name` under task path tp: the cache it leaves and how it ended
\* ("return": the early return; "KeyError": raised by self.replicas[task_path]).
data_watch(cache, tp, name, data, type) ==
  LET rnode == Rnode(name)
      found == HasEntry(cache, tp, rnode)
      \* meta.stat = ModelState.UNKNOWN on the cached object itself
      cache1 == IF IsEmptyData(data) /\ found
                  THEN PutEntry(cache, tp, rnode, MarkUnknown(cache[tp][rnode]))
                  ELSE cache
      meta == IF IsEmptyData(data) THEN cache1[tp][rnode] ELSE deserialize(data)
  IN
  IF IsEmptyData(data) /\ ~found THEN [cache |-> cache, outcome |-> "return"]
  ELSE IF type \in {INITIAL, CREATED}
    THEN [cache |-> PutEntry(cache1, tp, rnode, meta), outcome |-> "done"]
  ELSE IF type = DELETED
    THEN [cache |-> DelEntry(cache1, tp, rnode), outcome |-> "done"]
  ELSE IF type = CHANGED
    THEN IF tp \in DOMAIN cache1
           THEN [cache |-> PutEntry(cache1, tp, rnode, meta), outcome |-> "done"]
           ELSE [cache |-> cache1, outcome |-> "KeyError"]
  ELSE IF type = NONE
    THEN IF tp \in DOMAIN cache1
           THEN [cache |-> PutEntry(cache1, tp, rnode, MarkUnknown(meta)),
                 outcome |-> "done"]
           ELSE [cache |-> cache1, outcome |-> "KeyError"]
  ELSE [cache |-> cache1, outcome |-> "done"]

\* no watch is installed: watch_data has not been called
NoTree == [known |-> <<>>, count |-> <<>>]

\* the update loop before its first _do_update; `set` is the history of the
\* states it has written to the store, per path
NoUpdate == [name |-> 1, replica_meta |-> NoMeta, set |-> {}]

\* ErrorCode.OK, and one of the other codes
OK == "OK"
ERR == "UNAVAILABLE_CODE"

\* what get_model_status(name) gives: it raises, or it returns a list of
\* version entries, each with a version, a state and a status code
Healthy(s) ==
  [raises |-> FALSE, list |-> <<[version |-> 1, state |-> s, error_code |-> OK]>>]

\* list.sort(key=version, reverse=True) of a list (line 558): the entry with
\* the greatest version first; entries of equal version keep their order
RECURSIVE SortByVersion(_)
SortByVersion(l) ==
  IF l = <<>> THEN <<>>
  ELSE LET top == CHOOSE i \in 1..Len(l) :
                    /\ \A j \in 1..Len(l) : l[j].version <= l[i].version
                    /\ \A j \in 1..(i - 1) : l[j].version < l[i].version
       IN  <<l[top]>> \o SortByVersion([j \in 1..(Len(l) - 1) |->
                                          IF j < top THEN l[j] ELSE l[j + 1]])

\* a selection that takes the entry of the greatest version whatever its state
model_version_status_Newest(l) == SortByVersion(l)[1]

\* _do_update lines 555-565: the entry whose state is mirrored, of a list that
\* is not empty; a list of one entry is neither sorted nor searched
model_version_status(l) ==
  LET sorted == IF Len(l) > 1 THEN SortByVersion(l) ELSE l
      found == {i \in 1..Len(sorted) : sorted[i].state = AVAILABLE}
  IN  IF Len(l) > 1 /\ found # {}
        THEN sorted[CHOOSE i \in found : \A j \in found : i <= j]
        ELSE sorted[1]

\* a health query whose failure is mirrored as AVAILABLE
resolved_FailAvailable(ans) ==
  IF ans.raises THEN AVAILABLE ELSE model_version_status(ans.list).state

\* the state _do_update mirrors: UNKNOWN when the query raised (line 541),
\* the selected entry's state otherwise (line 572)
resolved(ans) ==
  IF ans.raises THEN UNKNOWN ELSE model_version_status(ans.list).state

\* an update that writes whatever the table holds
needs_write_Always(table_stat, stat) == TRUE

\* lines 540 and 574: the table and the store are written when the states differ
needs_write(table_stat, stat) == table_stat # stat

\* the values of the state before anything happened
\* (ReplicaWatcher.__init__, ReplicaUpdater.__init__, ZKListener.__init__, and
\* the threads started by ReplicaManager.start, each in its first sleep)
ConnInit ==
  /\ zk_state = "CONNECTED"
  /\ has_lost = FALSE
  /\ should_poll = TRUE
  /\ should_update = TRUE
  /\ should_reregister = FALSE
  /\ lst_pc = "idle"
  /\ poll_pc = "sleep"
  /\ upd_pc = "sleep"
  /\ rr_pc = "sleep"
  /\ reg_calls = 0
  /\ ran_paused = {}
  /\ mgr = [pc |-> "running", step |-> 0]
  /\ has_stop = [watcher |-> FALSE, updater |-> FALSE]
  /\ model_status = <<>>
  /\ upd = NoUpdate
  /\ tree = NoTree
NoCallback == [tp |-> TaskPath("", "", PS, 0), name |-> Str(0), data |-> NoneData,
               type |-> "none", outcome |-> "none", found |-> FALSE, old |-> NoMeta]

EmptyCache == [t \in {} |-> [r \in {} |-> NoMeta]]
NoNodes == [n \in {} |-> [data |-> NoneData, owner |-> "", ephemeral |-> TRUE]]

\* no sweep has run and no process has called register()
NoNeed == [n \in {} |-> NoMeta]
NoSweep == [swaps |-> 0, first |-> EmptyCache, first_need |-> NoNeed,
            second |-> EmptyCache, second_need |-> NoNeed,
            clean_prev |-> FALSE, clean_cur |-> FALSE, heals |-> {}]
SweepIdleInit ==
  /\ zk_tasks = {}
  /\ replicas_tmp = EmptyCache
  /\ need_register_replicas = NoNeed
  /\ sweep_log = NoSweep
  /\ lock = "free"
IdleInit ==
  /\ SweepIdleInit
  /\ updater = <<>>
  /\ sequence = 0

(***************************************************************************)
(* SpecQuery: the four queries over arbitrary cache contents               *)
(***************************************************************************)

\* how many entries the injected cache holds at most
MaxEntries == 3

QLocs(dc) == IF dc THEN {<<"lf", "c1">>, <<"hl", "c2">>} ELSE {<<"", "">>}
QTasks(dc) == IF dc THEN {<<PS, 0>>, <<DENSE, 0>>} ELSE {<<PS, 0>>, <<PS, 1>>, <<DENSE, 0>>}
QTaskPaths(dc) == {TaskPath(l[1], l[2], t[1], t[2]) : l \in QLocs(dc), t \in QTasks(dc)}
QRnodes == {Str(0), Str(1)}
QSlots(dc) == QTaskPaths(dc) \X QRnodes

\* the record of the replica registered by host h<r> for a task of type st
QPort(st) == IF st = PS THEN <<"8711", "8721">> ELSE <<"8712", "8722">>
QHost(tp, r) == IF tp.idc = "hl" THEN <<"hl", r>> ELSE <<"h", r>>
QMeta(tp, r, stat) == ReplicaMeta(QHost(tp, r), QPort(tp.st)[1], QPort(tp.st)[2], stat)

\* the cache holding exactly the slots K, with states f
CacheOf(K, f) ==
  [tp \in {k[1] : k \in K} |->
     [r \in {k[2] : k \in {x \in K : x[1] = tp}} |-> QMeta(tp, r, f[<<tp, r>>])]]

NoQuery == [op |-> "none", st |-> PS, task |-> 0, replica |-> 0, idc |-> NoneArg,
            cluster |-> NoneArg, shape |-> "None", size |-> 0, addrs |-> {}]

QInit ==
  /\ \E dc \in BOOLEAN, ua \in BOOLEAN, af \in {"ipv4", "ipv6"} :
       conf = AgentConfig(dc, ua, af)
  /\ \E K \in {S \in SUBSET QSlots(conf.dc_aware) : Cardinality(S) <= MaxEntries} :
       \E f \in [K -> ModelState] : replicas = CacheOf(K, f)
  /\ qret = NoQuery
  /\ zk_nodes = NoNodes
  /\ watched = {}
  /\ events = <<>>
  /\ last = NoCallback
  /\ born_empty = {}
  /\ ConnInit
  /\ IdleInit

QIdc == {NoneArg, "lf"}
QCluster == {NoneArg, "c1"}

QueryAll ==
  \E st \in {PS, DENSE}, idc \in QIdc, cluster \in QCluster :
    LET res == get_all_replicas(replicas, st, idc, cluster) IN
    /\ qret.op = "none"
    /\ lock = "free"
    /\ qret' = [op |-> "get_all_replicas", st |-> st, task |-> 0, replica |-> 0,
                idc |-> idc, cluster |-> cluster, shape |-> "dict",
                size |-> Cardinality(DOMAIN res),
                addrs |-> UNION {Range(res[k]) : k \in DOMAIN res}]
    /\ UNCHANGED <<conf, replicas, zk_nodes, watched, events, last, born_empty, connvars, sweepvars, regvars>>

QueryReplicas ==
  \E st \in {PS, DENSE}, task \in 0..1, idc \in QIdc, cluster \in QCluster :
    /\ qret.op = "none"
    /\ lock = "free"
    /\ qret' = [op |-> "get_replicas", st |-> st, task |-> task, replica |-> 0,
                idc |-> idc, cluster |-> cluster, shape |-> "list",
                size |-> Len(get_replicas(replicas, st, task, idc, cluster)),
                addrs |-> Range(get_replicas(replicas, st, task, idc, cluster))]
    /\ UNCHANGED <<conf, replicas, zk_nodes, watched, events, last, born_empty, connvars, sweepvars, regvars>>

QueryReplica ==
  \E st \in {PS, DENSE}, task \in 0..1, replica \in 0..1, idc \in QIdc, cluster \in QCluster :
    LET res == get_replica(replicas, st, task, replica, idc, cluster) IN
    /\ qret.op = "none"
    /\ lock = "free"
    /\ qret' = [op |-> "get_replica", st |-> st, task |-> task, replica |-> replica,
                idc |-> idc, cluster |-> cluster, shape |-> res.shape,
                size |-> Len(res.addrs), addrs |-> Range(res.addrs)]
    /\ UNCHANGED <<conf, replicas, zk_nodes, watched, events, last, born_empty, connvars, sweepvars, regvars>>

QueryExtra ==
  \E st \in {PS, DENSE}, task \in 0..1, idc \in QIdc, cluster \in QCluster :
    /\ qret.op = "none"
    /\ lock = "free"
    /\ qret' = [op |-> "get_replicas_with_extra_info", st |-> st, task |-> task,
                replica |-> 0, idc |-> idc, cluster |-> cluster, shape |-> "dict",
                size |-> Cardinality(DOMAIN get_replicas_with_extra_info(replicas, st, task,
                                                                         idc, cluster)),
                addrs |-> DOMAIN get_replicas_with_extra_info(replicas, st, task, idc, cluster)]
    /\ UNCHANGED <<conf, replicas, zk_nodes, watched, events, last, born_empty, connvars, sweepvars, regvars>>

QNext == QueryAll \/ QueryReplicas \/ QueryReplica \/ QueryExtra
SpecQuery == QInit /\ [][QNext]_vars

\* the cached entries (task path, rnode) a query with qret's arguments ranges over
QMatching ==
  {h \in UNION {{<<tp, r>> : r \in DOMAIN replicas[tp]} : tp \in DOMAIN replicas} :
     /\ h[1].st = qret.st
     /\ dc_flag(h[1], qret.idc, qret.cluster)
     /\ (qret.op # "get_all_replicas" => h[1].idx = qret.task)
     /\ (qret.op = "get_replica" => ParseInt(h[2]) = qret.replica)}

QAddr(h) == get_address(replicas[h[1]][h[2]], conf.use_archon, conf.address_family)

\* C1: every address returned by get_replica, get_replicas, get_all_replicas and
\* get_replicas_with_extra_info is the address of a cached entry the query ranges
\* over whose state is AVAILABLE at the time of the query; entries whose state is
\* UNKNOWN or UNAVAILABLE contribute no address.
C1_QueriesReturnOnlyAvailable ==
  qret.op # "none" =>
    \A a \in qret.addrs :
      \E h \in QMatching : replicas[h[1]][h[2]].stat = AVAILABLE /\ QAddr(h) = a

\* C1 witness: a query returned an address while the entries it ranges over hold
\* all three states, one of them at an address that was not returned.
C1_Witness ==
  /\ qret.op = "get_all_replicas"
  /\ qret.addrs # {}
  /\ {replicas[h[1]][h[2]].stat : h \in QMatching} = ModelState
  /\ \E h \in QMatching : QAddr(h) \notin qret.addrs

\* the entries a query ranges over whose state is AVAILABLE
QHits == {h \in QMatching : replicas[h[1]][h[2]].stat = AVAILABLE}

\* C12: get_replica returns None when no AVAILABLE cached entry matches, the one
\* address when exactly one matches, and a list with one address per match when
\* several match; several matches lie in different task paths.
C12_GetReplicaShape ==
  qret.op = "get_replica" =>
    /\ qret.shape = "None" <=> QHits = {}
    /\ qret.shape = "str" <=> Cardinality(QHits) = 1
    /\ qret.shape = "list" <=> Cardinality(QHits) > 1
    /\ qret.size = Cardinality(QHits)
    /\ qret.addrs = {QAddr(h) : h \in QHits}
    /\ \A h \in QHits : \A g \in QHits \ {h} : h[1] # g[1]

\* C12 witness: get_replica returned a list, for one replica id that is
\* AVAILABLE under the same task in two localities, beside an entry that is not.
C12_Witness ==
  /\ qret.op = "get_replica"
  /\ qret.shape = "list"
  /\ Cardinality(QHits) = 2
  /\ \E tp \in DOMAIN replicas : \E r \in DOMAIN replicas[tp] :
       replicas[tp][r].stat # AVAILABLE

(***************************************************************************)
(* SpecWatch: the store's replica nodes, their data watches, the cache      *)
(***************************************************************************)

\* how many callbacks may be pending at once
MaxPending == 2

\* the replica nodes of the run: two PS replicas of one task and an entry
\* replica registered with the zero-padded id of line 513
WNodes == {<<TaskPath("", "", PS, 0), Str(0)>>, <<TaskPath("", "", PS, 0), Str(1)>>,
           <<TaskPath("", "", ENTRY, 0), Pad(1, 11)>>}

WMeta(n, stat) ==
  IF n[1].st = PS THEN ReplicaMeta(<<"h", n[2]>>, "8711", "8721", stat)
  ELSE ReplicaMeta(<<"h", n[2]>>, "8710", "8720", stat)

\* what a node may hold: a serialized record in any state, or no bytes
WData(n) == {serialize(WMeta(n, st)) : st \in {UNKNOWN, AVAILABLE}} \cup {EmptyData}

WInit ==
  /\ conf = AgentConfig(FALSE, FALSE, "ipv4")
  /\ replicas = EmptyCache
  /\ qret = NoQuery
  /\ zk_nodes = NoNodes
  /\ watched = {}
  /\ events = <<>>
  /\ last = NoCallback
  /\ born_empty = {}
  /\ ConnInit
  /\ IdleInit

Event(n, data, type) == [tp |-> n[1], name |-> n[2], data |-> data, type |-> type]

\* zk.create of a replica node.  The replica children-watch installs a DataWatch
\* on a child it has not seen, whose first call has event None; a node created
\* again under an installed watch is announced by a CREATED event.
ZkCreate ==
  \E n \in WNodes : \E data \in WData(n) :
    /\ n \notin DOMAIN zk_nodes
    /\ Len(events) < MaxPending
    /\ zk_nodes' = [k \in DOMAIN zk_nodes \cup {n} |->
                      IF k = n THEN [data |-> data, owner |-> "other", ephemeral |-> TRUE]
                      ELSE zk_nodes[k]]
    /\ watched' = watched \cup {n}
    /\ events' = Append(events, Event(n, data, IF n \in watched THEN CREATED ELSE INITIAL))
    /\ born_empty' = IF IsEmptyData(data) THEN born_empty \cup {n} ELSE born_empty
    /\ UNCHANGED <<conf, replicas, qret, last, connvars, sweepvars, regvars>>

\* zk.set of a replica node: a CHANGED event
ZkSet ==
  \E n \in DOMAIN zk_nodes : \E data \in WData(n) :
    /\ data # zk_nodes[n].data
    /\ Len(events) < MaxPending
    /\ zk_nodes' = [zk_nodes EXCEPT ![n].data = data]
    /\ events' = Append(events, Event(n, data, CHANGED))
    /\ UNCHANGED <<conf, replicas, qret, watched, last, born_empty, connvars, sweepvars, regvars>>

\* the node is deleted (its session ended): a DELETED event with no data
ZkDelete ==
  \E n \in DOMAIN zk_nodes :
    /\ Len(events) < MaxPending
    /\ zk_nodes' = [k \in DOMAIN zk_nodes \ {n} |-> zk_nodes[k]]
    /\ events' = Append(events, Event(n, NoneData, DELETED))
    /\ born_empty' = born_empty \ {n}
    /\ UNCHANGED <<conf, replicas, qret, watched, last, connvars, sweepvars, regvars>>

\* the client makes the oldest pending callback, which takes the cache lock
Deliver ==
  /\ events # <<>>
  /\ lock = "free"
  /\ LET e == Head(events)
         res == data_watch(replicas, e.tp, e.name, e.data, e.type)
         found == HasEntry(replicas, e.tp, Rnode(e.name))
     IN  /\ replicas' = res.cache
         /\ last' = [tp |-> e.tp, name |-> e.name, data |-> e.data, type |-> e.type,
                     outcome |-> res.outcome, found |-> found,
                     old |-> IF found THEN replicas[e.tp][Rnode(e.name)] ELSE NoMeta]
  /\ events' = Tail(events)
  /\ UNCHANGED <<conf, qret, zk_nodes, watched, born_empty, connvars, sweepvars, regvars>>

WNext == ZkCreate \/ ZkSet \/ ZkDelete \/ Deliver
SpecWatch == WInit /\ [][WNext]_vars

\* the cache entries, as (task path, rnode) pairs
Entries(cache) == UNION {{<<tp, r>> : r \in DOMAIN cache[tp]} : tp \in DOMAIN cache}

\* the cache slot of a replica node
Slot(n) == <<n[1], Rnode(n[2])>>

\* the existing nodes that hold bytes, each at its slot with its latest payload
ExpectedCache ==
  LET live == {n \in DOMAIN zk_nodes : ~IsEmptyData(zk_nodes[n].data)}
  IN  [tp \in {n[1] : n \in live} |->
         [r \in {Rnode(n[2]) : n \in {x \in live : x[1] = tp}} |->
            deserialize(zk_nodes[CHOOSE n \in live : Slot(n) = <<tp, r>>].data)]]

C8_EmptyChangeForcesUnknown ==
  (last.type = CHANGED /\ IsEmptyData(last.data) /\ last.found) =>
    /\ HasEntry(replicas, last.tp, Rnode(last.name))
    /\ replicas[last.tp][Rnode(last.name)] = [last.old EXCEPT !.stat = UNKNOWN]
    /\ last.outcome = "done"

\* C8 witness: the callback came for an entry that was AVAILABLE.
C8_Witness ==
  /\ last.type = CHANGED
  /\ IsEmptyData(last.data)
  /\ last.found
  /\ last.old.stat = AVAILABLE

\* C9: delivering a CHANGED event a second time leaves the cache as the first
\* delivery left it, for the event just delivered and for every CHANGED event
\* that could be delivered to the cache as it is.
C9_ChangedReplayIdempotent ==
  /\ last.type = CHANGED =>
       data_watch(replicas, last.tp, last.name, last.data, CHANGED).cache = replicas
  /\ \A n \in WNodes : \A data \in WData(n) \cup {NoneData} :
       LET once == data_watch(replicas, n[1], n[2], data, CHANGED).cache
       IN  data_watch(once, n[1], n[2], data, CHANGED).cache = once

\* C9 witness: a CHANGED event was delivered and changed the cached record.
C9_Witness ==
  /\ last.type = CHANGED
  /\ last.outcome = "done"
  /\ last.found
  /\ replicas[last.tp][Rnode(last.name)] # last.old

(***************************************************************************)
(* SpecConn: the Listener, the pause flags and the three background loops   *)
(***************************************************************************)

\* the value at which the count of register() calls stops growing
MaxRegCalls == 2

CInit ==
  /\ conf = AgentConfig(FALSE, FALSE, "ipv4")
  /\ replicas = EmptyCache
  /\ qret = NoQuery
  /\ zk_nodes = NoNodes
  /\ watched = {}
  /\ events = <<>>
  /\ last = NoCallback
  /\ born_empty = {}
  /\ ConnInit
  /\ IdleInit

\* ZKListener.__call__(KazooState.LOST)
NotifyLost ==
  /\ lst_pc = "idle"
  /\ zk_state \in {"CONNECTED", "SUSPENDED"}
  /\ zk_state' = "LOST"
  /\ has_lost' = TRUE
  /\ should_poll' = FALSE
  /\ should_update' = FALSE
  /\ UNCHANGED <<should_reregister, lst_pc, poll_pc, upd_pc, rr_pc, reg_calls, ran_paused>>
  /\ UNCHANGED <<datavars, sweepvars, regvars>>

\* a Listener that pauses the sweep on SUSPENDED as it does on LOST
NotifySuspended_Pauses ==
  /\ lst_pc = "idle"
  /\ zk_state = "CONNECTED"
  /\ zk_state' = "SUSPENDED"
  /\ should_poll' = FALSE
  /\ UNCHANGED <<has_lost, should_update, should_reregister,
                 lst_pc, poll_pc, upd_pc, rr_pc, reg_calls, ran_paused>>
  /\ UNCHANGED <<datavars, sweepvars, regvars>>

\* ZKListener.__call__(KazooState.SUSPENDED): return False
NotifySuspended ==
  /\ lst_pc = "idle"
  /\ zk_state = "CONNECTED"
  /\ zk_state' = "SUSPENDED"
  /\ UNCHANGED <<has_lost, should_poll, should_update, should_reregister,
                 lst_pc, poll_pc, upd_pc, rr_pc, reg_calls, ran_paused>>
  /\ UNCHANGED <<datavars, sweepvars, regvars>>

\* ZKListener.__call__(KazooState.CONNECTED) up to its time.sleep(5)
NotifyConnected ==
  /\ lst_pc = "idle"
  /\ zk_state \in {"SUSPENDED", "LOST"}
  /\ zk_state' = "CONNECTED"
  /\ IF has_lost
       THEN /\ should_reregister' = TRUE
            /\ lst_pc' = "sleep"
            /\ reg_calls' = 0
       ELSE UNCHANGED <<should_reregister, lst_pc, reg_calls>>
  /\ UNCHANGED <<has_lost, should_poll, should_update, poll_pc, upd_pc, rr_pc, ran_paused>>
  /\ UNCHANGED <<datavars, sweepvars, regvars>>

\* ZKListener.__call__ after the sleep: _should_poll = True; _has_lost = False
ListenerWake ==
  /\ lst_pc = "sleep"
  /\ should_poll' = TRUE
  /\ has_lost' = FALSE
  /\ lst_pc' = "idle"
  /\ UNCHANGED <<zk_state, should_update, should_reregister, poll_pc, upd_pc, rr_pc,
                 reg_calls, ran_paused>>
  /\ UNCHANGED <<datavars, sweepvars, regvars>>

\* _poll: after time.sleep(60), `if not self._should_poll: continue`, else the
\* work body starts
PollTick ==
  /\ poll_pc = "sleep"
  /\ poll_pc' = IF should_poll THEN "body" ELSE "sleep"
  /\ ran_paused' = IF should_poll /\ zk_state = "LOST" THEN ran_paused \cup {"poll"}
                   ELSE ran_paused
  /\ UNCHANGED <<zk_state, has_lost, should_poll, should_update, should_reregister,
                 lst_pc, upd_pc, rr_pc, reg_calls>>
  /\ UNCHANGED <<datavars, sweepvars, regvars>>

\* _poll: the work body ran (tree listing, swap, creates), or raised and the
\* `except Exception` of line 268 caught it; the loop goes back to its sleep
PollBody ==
  /\ poll_pc = "body"
  /\ poll_pc' = "sleep"
  /\ UNCHANGED <<zk_state, has_lost, should_poll, should_update, should_reregister,
                 lst_pc, upd_pc, rr_pc, reg_calls, ran_paused>>
  /\ UNCHANGED <<datavars, sweepvars, regvars>>

\* _updater: after time.sleep(1), `if not self._should_update: continue`, else
\* the work body starts
UpdTick ==
  /\ upd_pc = "sleep"
  /\ upd_pc' = IF should_update THEN "body" ELSE "sleep"
  /\ ran_paused' = IF should_update /\ zk_state = "LOST" THEN ran_paused \cup {"update"}
                   ELSE ran_paused
  /\ UNCHANGED <<zk_state, has_lost, should_poll, should_update, should_reregister,
                 lst_pc, poll_pc, rr_pc, reg_calls>>
  /\ UNCHANGED <<datavars, sweepvars, regvars>>

\* _updater: _do_update ran for every role, or raised and line 598 caught it
UpdBody ==
  /\ upd_pc = "body"
  /\ upd_pc' = "sleep"
  /\ UNCHANGED <<zk_state, has_lost, should_poll, should_update, should_reregister,
                 lst_pc, poll_pc, rr_pc, reg_calls, ran_paused>>
  /\ UNCHANGED <<datavars, sweepvars, regvars>>

\* _reregister: after time.sleep(10), `if self._should_reregister:` calls register()
RrTick ==
  /\ rr_pc = "sleep"
  /\ IF should_reregister
       THEN /\ rr_pc' = "register"
            /\ reg_calls' = IF reg_calls < MaxRegCalls THEN reg_calls + 1 ELSE reg_calls
            /\ updater' = [p \in DOMAIN updater |->
                             [updater[p] EXCEPT !.pc = "exists", !.role = 1]]
       ELSE UNCHANGED <<rr_pc, reg_calls, updater>>
  /\ UNCHANGED <<zk_state, has_lost, should_poll, should_update, should_reregister,
                 lst_pc, poll_pc, upd_pc, ran_paused>>
  /\ UNCHANGED <<datavars, sweepvars, sequence, mgrvars>>

\* _reregister: register() returned; self._should_update = True.  The flag
\* _should_reregister is left as it is (line 677 is a comment).
RrRegisterReturns ==
  /\ rr_pc = "register"
  /\ \A p \in DOMAIN updater : updater[p].pc = "idle"
  /\ should_update' = TRUE
  /\ rr_pc' = "sleep"
  /\ UNCHANGED <<zk_state, has_lost, should_poll, should_reregister, lst_pc, poll_pc,
                 upd_pc, reg_calls, ran_paused>>
  /\ UNCHANGED <<datavars, sweepvars, regvars>>

\* _reregister: register() raised (zk.exists / zk.get / zk.set on a session that
\* is not connected); nothing in _reregister catches it and the thread ends
RrRegisterRaises ==
  /\ rr_pc = "register"
  /\ zk_state # "CONNECTED"
  /\ rr_pc' = "dead"
  /\ updater' = [p \in DOMAIN updater |-> [updater[p] EXCEPT !.pc = "idle"]]
  /\ UNCHANGED <<zk_state, has_lost, should_poll, should_update, should_reregister,
                 lst_pc, poll_pc, upd_pc, reg_calls, ran_paused>>
  /\ UNCHANGED <<datavars, sweepvars, sequence, mgrvars>>

CNext ==
  \/ NotifyLost \/ NotifySuspended \/ NotifyConnected \/ ListenerWake
  \/ PollTick \/ PollBody \/ UpdTick \/ UpdBody
  \/ RrTick \/ RrRegisterReturns \/ RrRegisterRaises

SpecConn == CInit /\ [][CNext]_vars

\* every thread that can take a step eventually takes it, and a connection
\* that is suspended or lost is eventually reported connected again
SpecConnFair ==
  /\ SpecConn
  /\ WF_vars(NotifyConnected)
  /\ WF_vars(ListenerWake)
  /\ WF_vars(PollTick) /\ WF_vars(PollBody)
  /\ WF_vars(UpdTick) /\ WF_vars(UpdBody)
  /\ WF_vars(RrTick) /\ WF_vars(RrRegisterReturns)

\* C3: from a LOST notification until the following CONNECTED notification,
\* neither the sweep nor the health-push loop starts its work body.
C3_PausedWhileLost == ran_paused = {}

\* C4: after a CONNECTED notification that follows a LOST, the reconnect loop
\* calls register() once and not again until the next LOST -> CONNECTED.
C4_RegisterOncePerEpisode == reg_calls <= 1

\* C5: after a CONNECTED notification that follows a LOST, the polling flag is
\* eventually re-enabled and the has-lost flag cleared by the Listener, and the
\* update flag is eventually re-enabled by the reconnect loop.
C5_DutiesResume ==
  /\ (lst_pc = "sleep") ~> (should_poll /\ ~has_lost)
  /\ (lst_pc = "sleep") ~> should_update

(***************************************************************************)
(* SpecSweep: the reconciliation sweep (_poll) and its self-healing         *)
(***************************************************************************)

\* the replica nodes of the run: the process's own node under each of its two
\* PS tasks, and another process's node
SNodes == {<<TaskPath("", "", PS, 0), Str(0)>>, <<TaskPath("", "", PS, 0), Str(1)>>,
           <<TaskPath("", "", PS, 1), Str(1)>>}

\* the record a process registers for its PS replica (ports of register())
SMeta(n) == ReplicaMeta(<<"h", n[2]>>, conf.tfs_ps_port, conf.tfs_ps_archon_port, UNKNOWN)

\* what a node created by a registration holds, or no bytes
SData(n) == {serialize(SMeta(n)), EmptyData}

SInit ==
  /\ conf = AgentConfig(FALSE, FALSE, "ipv4")
  /\ replicas = EmptyCache
  /\ qret = NoQuery
  /\ zk_nodes = NoNodes
  /\ watched = {}
  /\ events = <<>>
  /\ last = NoCallback
  /\ born_empty = {}
  /\ ConnInit
  /\ IdleInit

\* a registration (of another process, or of this process's Updater) creates a
\* replica node, and with makepath its task node: a mutation of the tree by a
\* party other than the sweep
StoreCreate ==
  \E n \in SNodes : \E data \in SData(n) :
    /\ n \notin DOMAIN zk_nodes
    /\ zk_nodes' = [k \in DOMAIN zk_nodes \cup {n} |->
                      IF k = n THEN [data |-> data, owner |-> "other", ephemeral |-> TRUE]
                      ELSE zk_nodes[k]]
    /\ zk_tasks' = zk_tasks \cup {n[1]}
    /\ sweep_log' = [sweep_log EXCEPT !.clean_cur = FALSE]
    /\ UNCHANGED <<conf, replicas, qret, watched, events, last, born_empty, connvars,
                   replicas_tmp, need_register_replicas, lock, regvars>>

\* the session that owns an ephemeral node ends; the task node stays
StoreDelete ==
  \E n \in DOMAIN zk_nodes :
    /\ zk_nodes[n].ephemeral
    /\ zk_nodes' = [k \in DOMAIN zk_nodes \ {n} |-> zk_nodes[k]]
    /\ sweep_log' = [sweep_log EXCEPT !.clean_cur = FALSE]
    /\ UNCHANGED <<conf, replicas, qret, watched, events, last, born_empty, connvars,
                   zk_tasks, replicas_tmp, need_register_replicas, lock, regvars>>

\* a sweep that reads one replica of each task and no more
Snapshot_OneReplica(tasks, nodes) ==
  [tp \in tasks |->
     LET rs == {Rnode(n[2]) : n \in {x \in DOMAIN nodes : x[1] = tp}} IN
     [r \in (IF rs = {} THEN {} ELSE {CHOOSE x \in rs : TRUE}) |->
        deserialize(nodes[CHOOSE n \in DOMAIN nodes : n[1] = tp /\ Rnode(n[2]) = r].data)]]

\* lines 193-218: replicas_tmp[task_path] = {} for every task node, then
\* replicas_tmp[task_path][str(int(replica))] = from_json(value) for its children
Snapshot(tasks, nodes) ==
  [tp \in tasks |->
     [r \in {Rnode(n[2]) : n \in {x \in DOMAIN nodes : x[1] = tp}} |->
        deserialize(nodes[CHOOSE n \in DOMAIN nodes : n[1] = tp /\ Rnode(n[2]) = r].data)]]

\* from_json of a node without bytes raises
SnapshotRaises(nodes) == \E n \in DOMAIN nodes : IsEmptyData(nodes[n].data)

\* _poll after its sleep, `if not self._should_poll: continue`, then the direct
\* reads of the tree
SweepList ==
  /\ poll_pc = "sleep"
  /\ should_poll
  /\ ~SnapshotRaises(zk_nodes)
  /\ replicas_tmp' = Snapshot(zk_tasks, zk_nodes)
  /\ poll_pc' = "swap"
  /\ sweep_log' = [sweep_log EXCEPT !.clean_prev = sweep_log.clean_cur,
                                    !.clean_cur = TRUE, !.heals = {}]
  /\ UNCHANGED <<datavars, zk_state, has_lost, should_poll, should_update,
                 should_reregister, lst_pc, upd_pc, rr_pc, reg_calls, ran_paused,
                 zk_tasks, need_register_replicas, lock, regvars>>

\* the reads raised; `except Exception` (line 268) logs and the loop sleeps again
SweepListRaises ==
  /\ poll_pc = "sleep"
  /\ should_poll
  /\ SnapshotRaises(zk_nodes)
  /\ poll_pc' = "sleep"
  /\ UNCHANGED <<datavars, zk_state, has_lost, should_poll, should_update,
                 should_reregister, lst_pc, upd_pc, rr_pc, reg_calls, ran_paused,
                 sweepvars, regvars>>

\* self._conf.get_server_schedule_iter(PS): the PS tasks of this shard
get_server_schedule_iter ==
  {i \in 0..(conf.num_ps - 1) : i % conf.num_shard = conf.shard_id}

\* f'/{server_type}:{i}/{self._conf.replica_id}' in replica, with server_type PS
\* (deploy type MIXED): a substring test on the path, which holds when the task
\* is ps:i and the node name starts with the digits of replica_id
MatchesOwn(path, i) ==
  /\ path[1].st = PS
  /\ path[1].idx = i
  /\ conf.replica_id >= 0
  /\ Len(Str(conf.replica_id)) <= Len(path[2])
  /\ SubSeq(path[2], 1, Len(Str(conf.replica_id))) = Str(conf.replica_id)

\* an address whose port is left as it was
Rewrite_KeepPort(addr, port) == addr

\* f"{addr.split(':')[0]}:{port}"
Rewrite(addr, port) == <<addr[1], port>>

\* lines 245-249, with port_grpc, port_archon of line 233
RewriteMeta(m) ==
  [m EXCEPT !.address = Rewrite(@, conf.tfs_port_grpc),
            !.address_ipv6 = Rewrite(@, conf.tfs_port_grpc),
            !.archon_address = Rewrite(@, conf.tfs_ps_archon_port),
            !.archon_address_ipv6 = Rewrite(@, conf.tfs_ps_archon_port)]

\* lines 221-250: the paths of the old cache that the snapshot lacks and that
\* match this process, each with its old record rewritten
NeedRegister(old, new) ==
  LET to_removed_replicas == Entries(old) \ Entries(new)
      own == {path \in to_removed_replicas :
                \E i \in get_server_schedule_iter : MatchesOwn(path, i)}
  IN  [path \in own |-> RewriteMeta(old[path[1]][path[2]])]

\* a swap that keeps only the entries the cache did not hold
SwapIn_OnlyNew(old, new) ==
  [tp \in DOMAIN new |->
     [r \in {x \in DOMAIN new[tp] : ~HasEntry(old, tp, x)} |-> new[tp][r]]]

\* self.replicas = replicas_tmp
SwapIn(old, new) == new

\* lines 220-253: `with self._lock:` is entered and the snapshot swapped in; the
\* block of the lock goes on to line 267
SweepSwap ==
  /\ poll_pc = "swap"
  /\ lock = "free"
  /\ lock' = "sweep"
  /\ need_register_replicas' = NeedRegister(replicas, replicas_tmp)
  /\ replicas' = SwapIn(replicas, replicas_tmp)
  /\ poll_pc' = "create"
  /\ sweep_log' = [sweep_log EXCEPT
                     !.swaps = IF @ < 2 THEN @ + 1 ELSE @,
                     !.first = sweep_log.second,
                     !.first_need = sweep_log.second_need,
                     !.second = SwapIn(replicas, replicas_tmp),
                     !.second_need = NeedRegister(replicas, replicas_tmp)]
  /\ UNCHANGED <<conf, qret, zk_nodes, watched, events, last, born_empty,
                 zk_state, has_lost, should_poll, should_update,
                 should_reregister, lst_pc, upd_pc, rr_pc, reg_calls, ran_paused,
                 zk_tasks, replicas_tmp, regvars>>

\* lines 256-267: zk_path, meta = need_register_replicas.popitem(), then
\* zk.retry(zk.create, path=zk_path, value=.., ephemeral=True, makepath=True,
\* sequence=False); NodeExistsError is logged and the loop goes on
SweepCreate ==
  /\ poll_pc = "create"
  /\ \E zk_path \in DOMAIN need_register_replicas :
       LET meta == need_register_replicas[zk_path]
           exists == zk_path \in DOMAIN zk_nodes
       IN  /\ need_register_replicas' =
                [k \in DOMAIN need_register_replicas \ {zk_path} |-> need_register_replicas[k]]
           /\ zk_nodes' =
                IF exists THEN zk_nodes
                ELSE [k \in DOMAIN zk_nodes \cup {zk_path} |->
                        IF k = zk_path
                          THEN [data |-> serialize(meta), owner |-> "self", ephemeral |-> TRUE]
                          ELSE zk_nodes[k]]
           /\ zk_tasks' = IF exists THEN zk_tasks ELSE zk_tasks \cup {zk_path[1]}
           /\ events' = IF ~exists /\ zk_path \in watched
                          THEN Append(events, Event(zk_path, serialize(meta), CREATED))
                          ELSE events
           /\ sweep_log' = [sweep_log EXCEPT !.heals = @ \cup
                              {<<zk_path, IF exists THEN "NodeExistsError" ELSE "created">>}]
  /\ UNCHANGED <<conf, replicas, qret, watched, last, born_empty, connvars,
                 replicas_tmp, lock, regvars>>

\* need_register_replicas is empty: the `with self._lock:` block is left, the
\* body is over and the loop sleeps again
SweepDone ==
  /\ poll_pc = "create"
  /\ DOMAIN need_register_replicas = {}
  /\ poll_pc' = "sleep"
  /\ lock' = "free"
  /\ UNCHANGED <<datavars, zk_state, has_lost, should_poll, should_update,
                 should_reregister, lst_pc, upd_pc, rr_pc, reg_calls, ran_paused,
                 zk_tasks, replicas_tmp, need_register_replicas, sweep_log, regvars>>

SNext ==
  \/ StoreCreate \/ StoreDelete
  \/ SweepList \/ SweepListRaises \/ SweepSwap \/ SweepCreate \/ SweepDone

SpecSweep == SInit /\ [][SNext]_vars

\* this process's own scheduled PS paths
OwnPaths ==
  {<<TaskPath("", "", PS, i), Str(conf.replica_id)>> : i \in get_server_schedule_iter}

\* the last part of an address is its port
PortOf(addr) == addr[Len(addr)]

\* C6: when the sweep swaps in a snapshot that lacks an own scheduled entry the
\* cache held, it goes on to create that node; each create either finds the node
\* there (tolerated) or leaves an ephemeral node whose four addresses end with
\* the configured ports; and the body then ends normally, back in its sleep.
C6_SelfHealing ==
  [][/\ (poll_pc = "swap" /\ poll_pc' = "create") =>
          \A path \in OwnPaths :
            (HasEntry(replicas, path[1], path[2]) /\ ~HasEntry(replicas_tmp, path[1], path[2]))
              => path \in DOMAIN need_register_replicas'
     /\ (poll_pc = "create" /\ need_register_replicas' # need_register_replicas) =>
          \A path \in DOMAIN need_register_replicas \ DOMAIN need_register_replicas' :
            /\ path \in DOMAIN zk_nodes'
            /\ path \in DOMAIN zk_nodes => zk_nodes'[path] = zk_nodes[path]
            /\ path \notin DOMAIN zk_nodes =>
                 LET m == deserialize(zk_nodes'[path].data) IN
                 /\ zk_nodes'[path].ephemeral
                 /\ PortOf(m.address) = conf.tfs_port_grpc
                 /\ PortOf(m.address_ipv6) = conf.tfs_port_grpc
                 /\ PortOf(m.archon_address) = conf.tfs_ps_archon_port
                 /\ PortOf(m.archon_address_ipv6) = conf.tfs_ps_archon_port
            /\ poll_pc' = "create"
     /\ (poll_pc = "create" /\ need_register_replicas' = need_register_replicas) =>
          (poll_pc' = "sleep" => DOMAIN need_register_replicas = {})
    ]_vars

\* C6 witness: one sweep re-created an own node with the configured ports and
\* found its other own node already created by someone else.
C6_Witness ==
  /\ poll_pc = "sleep"
  /\ {h[2] : h \in sweep_log.heals} = {"created", "NodeExistsError"}
  /\ \E h \in sweep_log.heals :
       /\ h[2] = "created"
       /\ h[1] \in OwnPaths
       /\ h[1] \in DOMAIN zk_nodes
       /\ zk_nodes[h[1]].owner = "self"
       /\ PortOf(deserialize(zk_nodes[h[1]].data).address) = conf.tfs_port_grpc
       /\ PortOf(SMeta(h[1]).address) # conf.tfs_port_grpc

\* the cache with the records of need put at their paths
Merge(cache, need) ==
  [tp \in DOMAIN cache \cup {n[1] : n \in DOMAIN need} |->
     [r \in (IF tp \in DOMAIN cache THEN DOMAIN cache[tp] ELSE {})
              \cup {n[2] : n \in {x \in DOMAIN need : x[1] = tp}} |->
        IF <<tp, r>> \in DOMAIN need THEN need[<<tp, r>>] ELSE cache[tp][r]]]

\* the tree was not changed by anyone but the sweep since the sweep before the
\* last one listed it, and the last sweep has just swapped its snapshot in
TwoCleanSweeps ==
  /\ poll_pc = "create"
  /\ sweep_log.swaps >= 2
  /\ sweep_log.clean_prev
  /\ sweep_log.clean_cur

\* C7 as stated: after two sweeps with no mutation of the tree by another party,
\* the cache after the second sweep equals the cache after the first.
C7_Original == TwoCleanSweeps => replicas = sweep_log.first

\* C7 amended: after two such sweeps the cache after the second equals the cache
\* after the first with the records of the nodes the first sweep re-created put
\* at their paths; it is equal to it when the first sweep re-created nothing.
C7_SweepIdempotentButHealed ==
  TwoCleanSweeps =>
    /\ replicas = Merge(sweep_log.first, sweep_log.first_need)
    /\ sweep_log.first_need = NoNeed => replicas = sweep_log.first

\* C7 witness: two sweeps of an unchanged tree that holds replica nodes, the
\* first of which re-created nothing.
C7_Witness ==
  /\ TwoCleanSweeps
  /\ sweep_log.first_need = NoNeed
  /\ Entries(replicas) # {}

\* C19: the Watcher never makes a call to the store while it holds the cache
\* lock: every self-healing create of the sweep (each one is entered in
\* sweep_log.heals) is issued when the lock is free.
C19_CreatesOutsideLock ==
  [][sweep_log'.heals # sweep_log.heals => lock = "free"]_vars

(***************************************************************************)
(* SpecHeal: one sweep over a cache whose nodes have partly disappeared     *)
(***************************************************************************)

MaxHeal == 3

\* replica slots of this process (replica_id 1) and of a process with id 10,
\* under every task and, when dc_aware, in both localities
HSlots(dc) == QTaskPaths(dc) \X {Str(1), Str(10)}

\* the store holding a node for each slot of N, and the task nodes of K
HNodes(N) ==
  [n \in N |-> [data |-> serialize(QMeta(n[1], n[2], AVAILABLE)),
                owner |-> "other", ephemeral |-> TRUE]]

\* the cache holds the slots K, of which only N are still in the store
HInit ==
  \E dc \in BOOLEAN : \E ns \in {1, 2} : \E K \in SUBSET HSlots(dc) : \E N \in SUBSET K :
    /\ Cardinality(K) <= MaxHeal
    /\ conf = [AgentConfig(dc, FALSE, "ipv4") EXCEPT !.num_shard = ns]
    /\ replicas = CacheOf(K, [k \in K |-> AVAILABLE])
    /\ qret = NoQuery
    /\ zk_nodes = HNodes(N)
    /\ watched = {}
    /\ events = <<>>
    /\ last = NoCallback
    /\ born_empty = {}
    /\ ConnInit
    /\ zk_tasks = {k[1] : k \in K}
    /\ replicas_tmp = EmptyCache
    /\ need_register_replicas = NoNeed
    /\ sweep_log = NoSweep
    /\ lock = "free"
    /\ updater = <<>>
    /\ sequence = 0

HNext == SweepList \/ SweepSwap \/ SweepCreate \/ SweepDone

SpecHeal == HInit /\ [][HNext]_vars

\* C17: the sweep re-creates a disappeared path (in the old cache, not in the
\* fresh listing) if and only if it is the process's own: a PS task of its
\* schedule, a node name equal to its replica_id, and when dc_aware its own idc
\* and cluster.
C17_Original ==
  [][(poll_pc = "swap" /\ poll_pc' = "create") =>
       DOMAIN need_register_replicas' =
         {path \in Entries(replicas) \ Entries(replicas_tmp) :
            /\ path[1].st = PS
            /\ path[1].idx \in get_server_schedule_iter
            /\ path[2] = Str(conf.replica_id)
            /\ conf.dc_aware => (path[1].idc = conf.idc /\ path[1].cluster = conf.cluster)}]_vars

(***************************************************************************)
(* SpecReady: the queries and the readiness predicates of ReplicaManager    *)
(***************************************************************************)

\* a readiness test that only looks for a missing list
is_dense_set_started_NotNone(cache) == TRUE

\* ReplicaManager.is_ps_set_started: for i in range(num_ps), the replicas of PS
\* task i in this process's idc and cluster; False at the first empty list
is_ps_set_started(cache) ==
  \A i \in 0..(conf.num_ps - 1) :
    Len(get_replicas(cache, PS, i, conf.idc, conf.cluster)) # 0

\* ReplicaManager.is_dense_set_started: the replicas of DENSE task 0, no filter
is_dense_set_started(cache) == Len(get_replicas(cache, DENSE, 0, NoneArg, NoneArg)) # 0

\* how many entries the cache of a readiness check holds at most
MaxReady == 2

\* (num_ps, num_shard) of the process; its shard_id is 0
ReadyShards == {<<1, 1>>, <<2, 1>>, <<2, 2>>}

\* the cache holding the slots K with states f, and the task paths E with no
\* replica (left by a sweep that listed a childless task node, line 211)
CacheWith(K, f, E) ==
  [tp \in {k[1] : k \in K} \cup E |->
     [r \in {k[2] : k \in {x \in K : x[1] = tp}} |-> QMeta(tp, r, f[<<tp, r>>])]]

ReadyInit ==
  /\ \E dc \in BOOLEAN, sh \in ReadyShards :
       conf = [AgentConfig(dc, FALSE, "ipv4") EXCEPT !.num_ps = sh[1], !.num_shard = sh[2]]
  /\ \E K \in {S \in SUBSET QSlots(conf.dc_aware) : Cardinality(S) <= MaxReady} :
       \E f \in [K -> ModelState] :
         \E E \in {S \in SUBSET (QTaskPaths(conf.dc_aware) \ {k[1] : k \in K}) :
                     Cardinality(S) <= 1} :
           replicas = CacheWith(K, f, E)
  /\ qret = NoQuery
  /\ zk_nodes = NoNodes
  /\ watched = {}
  /\ events = <<>>
  /\ last = NoCallback
  /\ born_empty = {}
  /\ ConnInit
  /\ IdleInit

IsPsSetStarted ==
  /\ qret.op = "none"
  /\ lock = "free"
  /\ qret' = [qret EXCEPT !.op = "is_ps_set_started", !.st = PS,
                          !.shape = IF is_ps_set_started(replicas) THEN "True" ELSE "False"]
  /\ UNCHANGED <<conf, replicas, zk_nodes, watched, events, last, born_empty, connvars,
                 sweepvars, regvars>>

IsDenseSetStarted ==
  /\ qret.op = "none"
  /\ lock = "free"
  /\ qret' = [qret EXCEPT !.op = "is_dense_set_started", !.st = DENSE,
                          !.shape = IF is_dense_set_started(replicas) THEN "True" ELSE "False"]
  /\ UNCHANGED <<conf, replicas, zk_nodes, watched, events, last, born_empty, connvars,
                 sweepvars, regvars>>

ReadyNext == QNext \/ IsPsSetStarted \/ IsDenseSetStarted
SpecReady == ReadyInit /\ [][ReadyNext]_vars

\* the AVAILABLE cached entries of a server type, in any locality
AvailableOf(st) ==
  {h \in Entries(replicas) : h[1].st = st /\ replicas[h[1]][h[2]].stat = AVAILABLE}

C14_Original ==
  /\ qret.op = "is_ps_set_started" =>
       (qret.shape = "True" <=>
          \A i \in get_server_schedule_iter :
            \E h \in AvailableOf(PS) :
              h[1].idx = i /\ dc_flag(h[1], conf.idc, conf.cluster))
  /\ qret.op = "is_dense_set_started" =>
       (qret.shape = "True" <=> \E h \in AvailableOf(DENSE) : h[1].idx = 0)

(***************************************************************************)
(* SpecReg: register() of two processes that start with replica_id = -1     *)
(***************************************************************************)

Procs == {1, 2}

\* a loop over the PS tasks that takes every task, whatever its shard
shard_tasks_All ==
  [i \in 1..conf.num_ps |-> [st |-> PS, idx |-> i - 1]]

\* `for task_id in range(num_ps): if task_id % num_shard == shard_id` (lines
\* 437-438 and 519-520): the PS tasks of this shard, in the loop's order
shard_tasks ==
  LET mine(r) == r.idx % conf.num_shard = conf.shard_id
  IN  SelectSeq([i \in 1..conf.num_ps |-> [st |-> PS, idx |-> i - 1]], mine)

\* the roles register() goes through (lines 509-526): the entry for deploy
\* type MIXED or ENTRY, then each PS task of the shard for MIXED or PS, then
\* dense task 0 when dense_alone is set, for MIXED or DENSE
Roles ==
  (IF conf.deploy_type \in {MIXED, ENTRY} THEN <<[st |-> ENTRY, idx |-> 0]>> ELSE <<>>)
  \o (IF conf.deploy_type \in {MIXED, PS} THEN shard_tasks ELSE <<>>)
  \o (IF conf.dense_alone /\ conf.deploy_type \in {MIXED, DENSE}
        THEN <<[st |-> DENSE, idx |-> 0]>> ELSE <<>>)

\* model_names (lines 434-448) as roles: the PS tasks of the shard, the entry,
\* dense task 0, under the same conditions on the deploy type
names ==
  (IF conf.deploy_type \in {MIXED, PS} THEN shard_tasks ELSE <<>>)
  \o (IF conf.deploy_type \in {MIXED, ENTRY} THEN <<[st |-> ENTRY, idx |-> 0]>> ELSE <<>>)
  \o (IF conf.dense_alone /\ conf.deploy_type \in {MIXED, DENSE}
        THEN <<[st |-> DENSE, idx |-> 0]>> ELSE <<>>)

RInit ==
  /\ conf = AgentConfig(FALSE, FALSE, "ipv4")
  /\ replicas = EmptyCache
  /\ qret = NoQuery
  /\ zk_nodes = NoNodes
  /\ watched = {}
  /\ events = <<>>
  /\ last = NoCallback
  /\ born_empty = {}
  /\ ConnInit
  /\ SweepIdleInit
  /\ updater = [p \in Procs |-> [replica_id |-> -1, meta |-> NoNeed, pc |-> "idle",
                                 role |-> 1, real_path |-> <<>>]]
  /\ sequence = 0

\* lines 511-513 and ps_path: the path register() hands to _do_register
replica_path(u) ==
  LET role == Roles[u.role] IN
  IF role.st = ENTRY
    THEN <<TaskPath("", "", ENTRY, 0),
           IF u.replica_id = -1 THEN Str(0) ELSE Pad(u.replica_id, 11)>>
    ELSE <<TaskPath("", "", role.st, role.idx), Str(u.replica_id)>>

\* the record of lines 479-483, with the ports register() passes for the role
RegMeta(p, u) ==
  IF Roles[u.role].st = ENTRY
    THEN ReplicaMeta(<<"h", p>>, conf.tfs_entry_port, conf.tfs_entry_archon_port, UNKNOWN)
    ELSE IF Roles[u.role].st = PS
    THEN ReplicaMeta(<<"h", p>>, conf.tfs_ps_port, conf.tfs_ps_archon_port, UNKNOWN)
    ELSE ReplicaMeta(<<"h", p>>, conf.tfs_dense_port, conf.tfs_dense_archon_port, UNKNOWN)

\* the store's name for a sequence node: the given name and the parent's
\* counter as ten digits
SeqName(base, ctr) == base \o Pad(ctr, 10)

\* an id parsed from the name the process asked for
AssignedId_Asked(asked, real_path) == ParseInt(asked[2])

\* int(os.path.basename(real_path))
AssignedId(asked, real_path) == ParseInt(real_path[2])

\* _do_register is over for the role: the next role, or register() returns
NextRole(u) ==
  IF u.role < Len(Roles) THEN [u EXCEPT !.role = @ + 1, !.pc = "exists"]
  ELSE [u EXCEPT !.role = 1, !.pc = "idle"]

\* register() is called (by ReplicaManager.start, or by the reconnect loop)
Register ==
  \E p \in DOMAIN updater :
    /\ updater[p].pc = "idle"
    /\ updater' = [updater EXCEPT ![p].pc = IF Roles = <<>> THEN "idle" ELSE "exists",
                                  ![p].role = 1]
    /\ UNCHANGED <<datavars, connvars, sweepvars, sequence, mgrvars>>

\* _do_register lines 484-487: self.meta[replica_path] = replica_meta;
\* node_stat = self.zk.exists(replica_path)
DoRegisterExists ==
  \E p \in DOMAIN updater :
    LET u == updater[p]
        path == replica_path(u)
        table == [k \in DOMAIN u.meta \cup {path} |->
                    IF k = path THEN RegMeta(p, u) ELSE u.meta[k]]
    IN  /\ u.pc = "exists"
        /\ updater' = [updater EXCEPT ![p].meta = table,
                         ![p].pc = IF path \in DOMAIN zk_nodes THEN "get" ELSE "create"]
        /\ UNCHANGED <<datavars, connvars, sweepvars, sequence, mgrvars>>

\* _do_register lines 488-502: the create, with sequence=True for the entry
\* path of a process whose replica_id is -1; then replica_id is parsed from the
\* real path and the table re-keyed.  On NodeExistsError the node is set.
DoRegisterCreate ==
  \E p \in DOMAIN updater :
    LET u == updater[p]
        path == replica_path(u)
        seq == Roles[u.role].st = ENTRY /\ u.replica_id = -1
        real_path == IF seq THEN <<path[1], SeqName(path[2], sequence)>> ELSE path
        node == [data |-> serialize(RegMeta(p, u)), owner |-> p, ephemeral |-> TRUE]
        rekeyed == [k \in (DOMAIN u.meta \ {path}) \cup {real_path} |->
                      IF k = real_path THEN u.meta[path] ELSE u.meta[k]]
    IN  /\ u.pc = "create"
        /\ real_path \in watched => Len(events) < MaxPending
        /\ events' = IF real_path \in watched
                        THEN Append(events, Event(real_path, node.data,
                               IF real_path \in DOMAIN zk_nodes THEN CHANGED ELSE CREATED))
                        ELSE events
        /\ IF real_path \in DOMAIN zk_nodes
             THEN \* NodeExistsError, then zk.set
                  /\ zk_nodes' = [zk_nodes EXCEPT ![real_path].data = node.data]
                  /\ updater' = [updater EXCEPT ![p] = NextRole(u)]
                  /\ UNCHANGED sequence
             ELSE /\ zk_nodes' = [k \in DOMAIN zk_nodes \cup {real_path} |->
                                    IF k = real_path THEN node ELSE zk_nodes[k]]
                  /\ sequence' = IF seq THEN sequence + 1 ELSE sequence
                  /\ updater' = [updater EXCEPT ![p] =
                       IF u.replica_id = -1
                         THEN NextRole([u EXCEPT !.replica_id = AssignedId(path, real_path),
                                                 !.meta = rekeyed,
                                                 !.real_path = real_path])
                         ELSE NextRole(u)]
        /\ zk_tasks' = zk_tasks \cup {path[1]}
        /\ UNCHANGED <<conf, replicas, qret, watched, last, born_empty, connvars,
                       replicas_tmp, need_register_replicas, sweep_log, lock, mgrvars>>

\* a register() that sets the node whatever it holds
value_differs_Always(value, bytes) == TRUE

\* _do_register line 505: if value != replica_meta_bytes
value_differs(value, bytes) == value # bytes

\* _do_register lines 503-506: the node exists; it is set if its bytes differ
DoRegisterGet ==
  \E p \in DOMAIN updater :
    LET u == updater[p]
        path == replica_path(u)
        bytes == serialize(RegMeta(p, u))
    IN  /\ u.pc = "get"
        /\ path \in DOMAIN zk_nodes
        /\ path \in watched => Len(events) < MaxPending
        /\ events' = IF path \in watched /\ value_differs(zk_nodes[path].data, bytes)
                        THEN Append(events, Event(path, bytes, CHANGED))
                        ELSE events
        /\ zk_nodes' = IF value_differs(zk_nodes[path].data, bytes)
                         THEN [zk_nodes EXCEPT ![path].data = bytes]
                         ELSE zk_nodes
        /\ updater' = [updater EXCEPT ![p] = NextRole(u)]
        /\ UNCHANGED <<conf, replicas, qret, watched, last, born_empty, connvars,
                       sweepvars, sequence, mgrvars>>

RNext == Register \/ DoRegisterExists \/ DoRegisterCreate \/ DoRegisterGet

SpecReg == RInit /\ [][RNext]_vars

\* the processes whose sequence create has returned
Assigned == {p \in Procs : updater[p].real_path # <<>>}

\* C10: after a process with replica_id -1 has registered its entry, its
\* replica_id is the number parsed from the name of the node the store created
\* for it, that node is its own, its table is keyed by the node's real path and
\* no longer by the path it asked for; two such processes hold different ids.
C10_SequenceIds ==
  /\ \A p \in Assigned :
       LET u == updater[p] IN
       /\ u.replica_id = ParseInt(u.real_path[2])
       /\ u.replica_id # -1
       /\ u.real_path \in DOMAIN u.meta
       /\ <<TaskPath("", "", ENTRY, 0), Str(0)>> \notin DOMAIN u.meta
       /\ u.real_path \in DOMAIN zk_nodes
       /\ zk_nodes[u.real_path].owner = p
  /\ \A p \in Assigned : \A q \in Assigned \ {p} :
       /\ updater[p].replica_id # updater[q].replica_id
       /\ updater[p].real_path # updater[q].real_path

\* C10 witness: both processes have finished register(); they were given the ids
\* 0 and 1, and each registered its PS replicas under its own id.
C10_Witness ==
  /\ Assigned = Procs
  /\ \A p \in Procs : updater[p].pc = "idle"
  /\ {updater[p].replica_id : p \in Procs} = {0, 1}
  /\ \A p \in Procs :
       <<TaskPath("", "", PS, 1), Str(updater[p].replica_id)>> \in DOMAIN updater[p].meta

(***************************************************************************)
(* SpecLife: ReplicaManager.start() and stop() of one process, its three    *)
(* threads, the health source and a peer that registers                     *)
(***************************************************************************)

\* a start() that installs the watches before it registers
start_steps_WatchFirst == <<"watch_data", "register", "start">>

\* ReplicaManager.start, lines 768-770: the calls it makes, in their order
start_steps == <<"register", "watch_data", "start">>

\* the caller of start() after one more of its calls has been made
Advance(m) ==
  IF m.step + 1 = Len(start_steps) THEN [pc |-> "running", step |-> 0]
  ELSE [m EXCEPT !.step = @ + 1]

\* model_names, as indices of Roles: where register() has the role of each name
model_names ==
  [k \in 1..Len(names) |-> CHOOSE i \in 1..Len(Roles) : Roles[i] = names[k]]

\* the path _do_update builds for the role in hand (lines 529-534)
update_path(u) == replica_path([u EXCEPT !.role = model_names[upd.name]])

\* a thread that was never started, or has returned, or died: join() returns
Terminated == {"none", "done", "dead"}

\* one process with replica_id 1 and one PS task; nothing is registered, no
\* thread is started, the health source reports no role as AVAILABLE
LInit ==
  /\ conf = [AgentConfig(FALSE, FALSE, "ipv4") EXCEPT !.num_ps = 1]
  /\ replicas = EmptyCache
  /\ qret = NoQuery
  /\ zk_nodes = NoNodes
  /\ watched = {}
  /\ events = <<>>
  /\ last = NoCallback
  /\ born_empty = {}
  /\ zk_state = "CONNECTED"
  /\ has_lost = FALSE
  /\ should_poll = TRUE
  /\ should_update = TRUE
  /\ should_reregister = FALSE
  /\ lst_pc = "idle"
  /\ poll_pc = "none"
  /\ upd_pc = "none"
  /\ rr_pc = "none"
  /\ reg_calls = 0
  /\ ran_paused = {}
  /\ SweepIdleInit
  /\ updater = [p \in {conf.replica_id} |->
                  [replica_id |-> conf.replica_id, meta |-> NoNeed, pc |-> "idle",
                   role |-> 1, real_path |-> <<>>]]
  /\ sequence = 0
  /\ mgr = [pc |-> "start", step |-> 0]
  /\ has_stop = [watcher |-> FALSE, updater |-> FALSE]
  /\ model_status = [k \in 1..Len(Roles) |-> Healthy(UNKNOWN)]
  /\ upd = NoUpdate
  /\ tree = NoTree
\* start(), line 768: self._updater.register()
StartRegister ==
  /\ mgr.pc = "start"
  /\ start_steps[mgr.step + 1] = "register"
  /\ \A p \in DOMAIN updater : updater[p].pc = "idle"
  /\ updater' = [p \in DOMAIN updater |-> [updater[p] EXCEPT !.pc = "exists", !.role = 1]]
  /\ mgr' = Advance(mgr)
  /\ UNCHANGED <<datavars, connvars, sweepvars, sequence, has_stop, model_status, upd, tree>>

\* the first call of each DataWatch that watch_data installs, made with event
\* None from the constructor, for the nodes ns in turn
RECURSIVE InitialCalls(_, _)
InitialCalls(cache, ns) ==
  IF ns = <<>> THEN cache
  ELSE InitialCalls(data_watch(cache, Head(ns)[1], Head(ns)[2],
                               zk_nodes[Head(ns)].data, INITIAL).cache, Tail(ns))

\* start(), line 769: watch_data() installs the children watches, which install
\* a DataWatch on every replica node there is, and starts the sweep thread
WatchData ==
  /\ mgr.pc = "start"
  /\ start_steps[mgr.step + 1] = "watch_data"
  /\ \A p \in DOMAIN updater : updater[p].pc = "idle"
  /\ lock = "free"
  /\ watched' = watched \cup DOMAIN zk_nodes
  /\ replicas' = InitialCalls(replicas, SeqOfSet(DOMAIN zk_nodes \ watched))
  /\ poll_pc' = "sleep"
  /\ has_stop' = [has_stop EXCEPT !.watcher = FALSE]
  /\ mgr' = Advance(mgr)
  /\ UNCHANGED <<conf, qret, zk_nodes, events, last, born_empty, zk_state, has_lost,
                 should_poll, should_update, should_reregister, lst_pc, upd_pc, rr_pc,
                 reg_calls, ran_paused, sweepvars, updater, sequence, model_status, upd, tree>>

\* start(), line 770: ReplicaUpdater.start() starts the update thread and the
\* reconnect thread (the metrics thread only when a metrics client was made,
\* which it is not here: use_metrics is off)
UpdaterStart ==
  /\ mgr.pc = "start"
  /\ start_steps[mgr.step + 1] = "start"
  /\ \A p \in DOMAIN updater : updater[p].pc = "idle"
  /\ has_stop' = [has_stop EXCEPT !.updater = FALSE]
  /\ upd_pc' = IF upd_pc = "none" THEN "sleep" ELSE upd_pc
  /\ rr_pc' = IF rr_pc = "none" THEN "sleep" ELSE rr_pc
  /\ mgr' = Advance(mgr)
  /\ UNCHANGED <<datavars, zk_state, has_lost, should_poll, should_update,
                 should_reregister, lst_pc, poll_pc, reg_calls, ran_paused,
                 sweepvars, updater, sequence, model_status, upd, tree>>

\* the served model of a PS role changes its state
HealthChange ==
  \E k \in DOMAIN model_status : \E s \in {UNKNOWN, AVAILABLE} :
    /\ Roles[k].st = PS
    /\ model_status[k] # Healthy(s)
    /\ model_status' = [model_status EXCEPT ![k] = Healthy(s)]
    /\ UNCHANGED <<datavars, connvars, sweepvars, updater, sequence, mgr, has_stop, upd, tree>>

\* _do_update up to its store call (lines 528-574). The query raises: the
\* table's record is set to UNKNOWN unless it is already. The query answers:
\* an empty list is skipped, an entry with an error status raises, and the
\* selected state is written into the table when it differs. Whatever
\* _do_update raises (the error status, the KeyError of a path the table
\* lacks) ends the tick: the try of _updater encloses the whole for loop
\* (lines 594-598)
DoUpdate ==
  \E p \in DOMAIN updater :
    LET u == updater[p]
        path == update_path(u)
        ans == model_status[model_names[upd.name]]
        next == IF upd.name < Len(Roles) THEN upd.name + 1 ELSE 1
        raised == IF ans.raises THEN path \notin DOMAIN u.meta
                  ELSE /\ ans.list # <<>>
                       /\ \/ model_version_status(ans.list).error_code # OK
                          \/ path \notin DOMAIN u.meta
        skipped == ~ans.raises /\ ans.list = <<>>
    IN  /\ upd_pc = "body"
        /\ IF raised
             THEN /\ upd_pc' = "sleep"
                  /\ upd' = [upd EXCEPT !.name = 1]
                  /\ UNCHANGED updater
             ELSE IF ~skipped /\ needs_write(u.meta[path].stat, resolved(ans))
               THEN /\ updater' = [updater EXCEPT ![p].meta[path].stat = resolved(ans)]
                    /\ upd' = [upd EXCEPT !.replica_meta =
                                            [u.meta[path] EXCEPT !.stat = resolved(ans)]]
                    /\ upd_pc' = "set"
               ELSE /\ upd' = [upd EXCEPT !.name = next]
                    /\ upd_pc' = IF next = 1 THEN "sleep" ELSE "body"
                    /\ UNCHANGED updater
        /\ UNCHANGED <<datavars, zk_state, has_lost, should_poll, should_update,
                       should_reregister, lst_pc, poll_pc, rr_pc, reg_calls, ran_paused,
                       sweepvars, sequence, mgr, has_stop, model_status, tree>>

\* _do_update lines 543-546 and 576-579: zk.set of the record's bytes, which
\* raises NoNodeError when the node is missing; the data watch of the node is
\* told
DoUpdateSet ==
  \E p \in DOMAIN updater :
    LET path == update_path(updater[p])
        bytes == serialize(upd.replica_meta)
        exists == path \in DOMAIN zk_nodes
        next == IF upd.name < Len(Roles) THEN upd.name + 1 ELSE 1
    IN  /\ upd_pc = "set"
        /\ path \in watched /\ exists => Len(events) < MaxPending
        /\ zk_nodes' = IF exists THEN [zk_nodes EXCEPT ![path].data = bytes]
                       ELSE zk_nodes
        /\ events' = IF path \in watched /\ exists
                       THEN Append(events, Event(path, bytes, CHANGED))
                       ELSE events
        /\ upd' = IF exists
                    THEN [upd EXCEPT !.name = next,
                                     !.set = @ \cup {<<path, upd.replica_meta.stat>>}]
                    ELSE upd
        /\ upd_pc' = IF ~exists THEN "create"
                     ELSE IF next = 1 THEN "sleep" ELSE "body"
        /\ UNCHANGED <<conf, replicas, qret, watched, last, born_empty,
                       zk_state, has_lost, should_poll, should_update,
                       should_reregister, lst_pc, poll_pc, rr_pc, reg_calls, ran_paused,
                       sweepvars, updater, sequence, mgr, has_stop, model_status, tree>>

\* _do_update lines 547-552 and 580-586: after NoNodeError, zk.create of an
\* ephemeral node (makepath); a node that is there by now raises
\* NodeExistsError, which leaves _do_update and ends the tick
DoUpdateCreate ==
  \E p \in DOMAIN updater :
    LET path == update_path(updater[p])
        bytes == serialize(upd.replica_meta)
        exists == path \in DOMAIN zk_nodes
        next == IF upd.name < Len(Roles) THEN upd.name + 1 ELSE 1
    IN  /\ upd_pc = "create"
        /\ path \in watched /\ ~exists => Len(events) < MaxPending
        /\ zk_nodes' = IF exists THEN zk_nodes
                       ELSE [k \in DOMAIN zk_nodes \cup {path} |->
                               IF k = path
                                 THEN [data |-> bytes, owner |-> p, ephemeral |-> TRUE]
                                 ELSE zk_nodes[k]]
        /\ zk_tasks' = IF exists THEN zk_tasks ELSE zk_tasks \cup {path[1]}
        /\ events' = IF path \in watched /\ ~exists
                       THEN Append(events, Event(path, bytes, CREATED))
                       ELSE events
        /\ upd' = IF exists THEN [upd EXCEPT !.name = 1]
                  ELSE [upd EXCEPT !.name = next,
                                   !.set = @ \cup {<<path, upd.replica_meta.stat>>}]
        /\ upd_pc' = IF exists \/ next = 1 THEN "sleep" ELSE "body"
        /\ UNCHANGED <<conf, replicas, qret, watched, last, born_empty,
                       zk_state, has_lost, should_poll, should_update,
                       should_reregister, lst_pc, poll_pc, rr_pc, reg_calls, ran_paused,
                       replicas_tmp, need_register_replicas, sweep_log, lock,
                       updater, sequence, mgr, has_stop, model_status, tree>>

\* another process (replica 0) registers its PS replica; once watch_data has
\* installed the children watches, the new child is given a DataWatch, whose
\* first call has event None
PeerRegister ==
  LET n == <<TaskPath("", "", PS, 0), Str(0)>>
      data == serialize(ReplicaMeta(<<"h", 0>>, conf.tfs_ps_port,
                                    conf.tfs_ps_archon_port, UNKNOWN))
  IN  /\ n \notin DOMAIN zk_nodes
      /\ zk_nodes' = [k \in DOMAIN zk_nodes \cup {n} |->
                        IF k = n THEN [data |-> data, owner |-> "other", ephemeral |-> TRUE]
                        ELSE zk_nodes[k]]
      /\ zk_tasks' = zk_tasks \cup {n[1]}
      /\ IF poll_pc # "none"
           THEN /\ watched' = watched \cup {n}
                /\ events' = Append(events, Event(n, data, INITIAL))
           ELSE UNCHANGED <<watched, events>>
      /\ UNCHANGED <<conf, replicas, qret, last, born_empty, connvars,
                     replicas_tmp, need_register_replicas, sweep_log, lock, regvars>>

\* loops of which only the Updater's two read the stop flag
LoopExit_UpdaterOnly ==
  /\ \/ /\ upd_pc = "sleep" /\ has_stop.updater
        /\ upd_pc' = "done" /\ UNCHANGED <<poll_pc, rr_pc>>
     \/ /\ rr_pc = "sleep" /\ has_stop.updater
        /\ rr_pc' = "done" /\ UNCHANGED <<poll_pc, upd_pc>>
  /\ UNCHANGED <<datavars, zk_state, has_lost, should_poll, should_update,
                 should_reregister, lst_pc, reg_calls, ran_paused, sweepvars, regvars>>

\* `while not self._has_stop:` of _poll, _updater and _reregister: a thread at
\* its loop head that finds its flag set returns
LoopExit ==
  /\ \/ /\ poll_pc = "sleep" /\ has_stop.watcher
        /\ poll_pc' = "done" /\ UNCHANGED <<upd_pc, rr_pc>>
     \/ /\ upd_pc = "sleep" /\ has_stop.updater
        /\ upd_pc' = "done" /\ UNCHANGED <<poll_pc, rr_pc>>
     \/ /\ rr_pc = "sleep" /\ has_stop.updater
        /\ rr_pc' = "done" /\ UNCHANGED <<poll_pc, upd_pc>>
  /\ UNCHANGED <<datavars, zk_state, has_lost, should_poll, should_update,
                 should_reregister, lst_pc, reg_calls, ran_paused, sweepvars, regvars>>

\* stop(), line 773, ReplicaUpdater.stop line 696: self._has_stop = True
StopUpdater ==
  /\ mgr.pc = "running"
  /\ has_stop' = [has_stop EXCEPT !.updater = TRUE]
  /\ mgr' = [mgr EXCEPT !.pc = "join_updater"]
  /\ UNCHANGED <<datavars, connvars, sweepvars, updater, sequence, model_status, upd, tree>>

\* ReplicaUpdater.stop lines 697-714: the joins of its threads have returned;
\* finally self.meta.clear()
JoinUpdater ==
  /\ mgr.pc = "join_updater"
  /\ upd_pc \in Terminated
  /\ rr_pc \in Terminated
  /\ updater' = [p \in DOMAIN updater |-> [updater[p] EXCEPT !.meta = NoNeed]]
  /\ mgr' = [mgr EXCEPT !.pc = "stop_watcher"]
  /\ UNCHANGED <<datavars, connvars, sweepvars, sequence, has_stop, model_status, upd, tree>>

\* stop(), line 774, ReplicaWatcher.stop line 89: self._has_stop = True
StopWatcher ==
  /\ mgr.pc = "stop_watcher"
  /\ has_stop' = [has_stop EXCEPT !.watcher = TRUE]
  /\ mgr' = [mgr EXCEPT !.pc = "join_watcher"]
  /\ UNCHANGED <<datavars, connvars, sweepvars, updater, sequence, model_status, upd, tree>>

\* ReplicaWatcher.stop lines 90-98: the join of the sweep thread has returned;
\* finally, with self._lock: self.replicas.clear()
JoinWatcher ==
  /\ mgr.pc = "join_watcher"
  /\ poll_pc \in Terminated
  /\ lock = "free"
  /\ replicas' = EmptyCache
  /\ mgr' = [mgr EXCEPT !.pc = "return"]
  /\ UNCHANGED <<conf, qret, zk_nodes, watched, events, last, born_empty, connvars,
                 sweepvars, updater, sequence, has_stop, model_status, upd, tree>>

\* ReplicaManager.stop returns to its caller
StopReturns ==
  /\ mgr.pc = "return"
  /\ mgr' = [mgr EXCEPT !.pc = "stopped"]
  /\ UNCHANGED <<datavars, connvars, sweepvars, updater, sequence, has_stop,
                 model_status, upd, tree>>

LNext ==
  \/ StartRegister \/ DoRegisterExists \/ DoRegisterCreate \/ WatchData \/ UpdaterStart
  \/ HealthChange \/ UpdTick \/ DoUpdate \/ DoUpdateSet \/ RrTick
  \/ PeerRegister \/ Deliver
  \/ SweepList \/ SweepSwap \/ SweepDone
  \/ LoopExit \/ StopUpdater \/ JoinUpdater \/ StopWatcher \/ JoinWatcher \/ StopReturns

SpecLife == LInit /\ [][LNext]_vars

\* C11: after PS task 0 of replica r is registered with grpc port p,
\* get_replica(PS, 0, r) returns None as long as the cached record is UNKNOWN;
\* when it returns something, that is the single address <host>:p, the Updater
\* has written the state AVAILABLE for the path to the store, and the cache
\* holds the record as AVAILABLE.
C11_EndToEnd ==
  \A p \in DOMAIN updater :
    LET tp == TaskPath("", "", PS, 0)
        r == Str(updater[p].replica_id)
        res == get_replica(replicas, PS, 0, updater[p].replica_id, NoneArg, NoneArg)
    IN  /\ (HasEntry(replicas, tp, r) /\ replicas[tp][r].stat = UNKNOWN) =>
             res.shape = "None"
        /\ res.shape # "None" =>
             /\ res = [shape |-> "str", addrs |-> <<Addr4(<<"h", p>>, conf.tfs_ps_port)>>]
             /\ <<<<tp, r>>, AVAILABLE>> \in upd.set
             /\ HasEntry(replicas, tp, r)
             /\ replicas[tp][r].stat = AVAILABLE

\* C11 witness: the query returns the address of the registered PS replica (the
\* Updater mirrored AVAILABLE and the record reached the cache).
C11_Witness ==
  \E p \in DOMAIN updater :
    /\ get_replica(replicas, PS, 0, updater[p].replica_id, NoneArg, NoneArg).shape = "str"
    /\ <<TaskPath("", "", PS, 0), Str(updater[p].replica_id)>> \in DOMAIN zk_nodes
    /\ mgr.pc = "running"

\* C15: start() registers, then installs the watches and starts the sweep
\* thread, then starts the Updater's loops: no watch is installed and no sweep
\* thread runs before every role of the process is registered and register()
\* has returned, and no Updater loop runs before the watches are installed.
C15_StartOrder ==
  LET registered ==
        \A p \in DOMAIN updater :
          /\ updater[p].pc = "idle"
          /\ \A k \in 1..Len(Roles) :
               replica_path([updater[p] EXCEPT !.role = k]) \in DOMAIN zk_nodes
  IN  /\ (poll_pc # "none" \/ watched # {}) => registered
      /\ (upd_pc # "none" \/ rr_pc # "none") => (registered /\ poll_pc # "none")

\* C15 witness: start() has returned; the process's nodes are watched and
\* cached and its three threads are in their loops.
C15_Witness ==
  /\ mgr.pc = "running"
  /\ poll_pc = "sleep" /\ upd_pc = "sleep" /\ rr_pc = "sleep"
  /\ \A p \in DOMAIN updater : \A k \in 1..Len(Roles) :
       replica_path([updater[p] EXCEPT !.role = k]) \in watched
  /\ Entries(replicas) # {}

\* C16: stop() stops the Updater before the Watcher (the Watcher's flag is set
\* only when the Updater's threads have ended and its table is empty), and at
\* the moment stop() returns every loop has ended, the table is empty and the
\* cache is empty.
C16_Original ==
  [][/\ (~has_stop.watcher /\ has_stop'.watcher) =>
          /\ has_stop.updater
          /\ upd_pc \in Terminated /\ rr_pc \in Terminated
          /\ \A p \in DOMAIN updater : updater[p].meta = NoNeed
     /\ (mgr.pc # "stopped" /\ mgr'.pc = "stopped") =>
          /\ upd_pc' \in Terminated /\ rr_pc' \in Terminated /\ poll_pc' \in Terminated
          /\ \A p \in DOMAIN updater : updater'[p].meta = NoNeed
          /\ replicas' = EmptyCache]_vars

(***************************************************************************)
(* SpecTable: the Updater's table after a reconnection: the reconnect       *)
(* loop's register() and the update loop                                    *)
(***************************************************************************)

\* the process has run, its session was LOST and the client is CONNECTED again:
\* its ephemeral nodes are gone and their records were dropped from the cache
\* by the DELETED callbacks, its table still holds them, the Listener is in its
\* sleep(5) with the re-register flag set and the two other flags cleared
TInit ==
  \E s \in {UNKNOWN, AVAILABLE} : \E h \in {UNKNOWN, AVAILABLE} :
    /\ conf = [AgentConfig(FALSE, FALSE, "ipv4") EXCEPT !.num_ps = 1]
    /\ replicas = EmptyCache
    /\ qret = NoQuery
    /\ zk_nodes = NoNodes
    /\ updater = [p \in {conf.replica_id} |->
                    LET u == [replica_id |-> conf.replica_id, meta |-> NoNeed, pc |-> "idle",
                              role |-> 1, real_path |-> <<>>]
                    IN  [u EXCEPT !.meta =
                           [n \in {replica_path([u EXCEPT !.role = k]) : k \in 1..Len(Roles)} |->
                              LET k == CHOOSE j \in 1..Len(Roles) :
                                         replica_path([u EXCEPT !.role = j]) = n
                              IN  [RegMeta(p, [u EXCEPT !.role = k]) EXCEPT
                                     !.stat = IF Roles[k].st = PS THEN s ELSE UNKNOWN]]]]
    /\ watched = DOMAIN updater[conf.replica_id].meta
    /\ events = <<>>
    /\ last = NoCallback
    /\ born_empty = {}
    /\ zk_state = "CONNECTED"
    /\ has_lost = TRUE
    /\ should_poll = FALSE
    /\ should_update = FALSE
    /\ should_reregister = TRUE
    /\ lst_pc = "sleep"
    /\ poll_pc = "sleep"
    /\ upd_pc = "sleep"
    /\ rr_pc = "sleep"
    /\ reg_calls = 0
    /\ ran_paused = {}
    /\ zk_tasks = {n[1] : n \in watched}
    /\ replicas_tmp = EmptyCache
    /\ need_register_replicas = NoNeed
    /\ sweep_log = NoSweep
    /\ lock = "free"
    /\ sequence = 0
    /\ mgr = [pc |-> "running", step |-> 0]
    /\ has_stop = [watcher |-> FALSE, updater |-> FALSE]
    /\ model_status = [k \in 1..Len(Roles) |->
                          Healthy(IF Roles[k].st = PS THEN h ELSE UNKNOWN)]
    /\ upd = NoUpdate
    /\ tree = NoTree
TNext ==
  \/ ListenerWake \/ RrTick \/ DoRegisterExists \/ DoRegisterCreate \/ DoRegisterGet
  \/ RrRegisterReturns \/ UpdTick \/ DoUpdate \/ DoUpdateSet \/ HealthChange
  \/ Deliver \/ SweepList \/ SweepSwap \/ SweepDone

SpecTable == TInit /\ [][TNext]_vars

\* C20: every mutation of the Updater's table is made under a lock of the
\* table, so the update loop and the reconnect loop's register() are never
\* inside a mutation of the same table entry at once: _do_update is not between
\* its write of the entry's state and its store call while _do_register is
\* between its replacement of the same entry and its store call.
C20_Original ==
  \A p \in DOMAIN updater :
    ~ /\ upd_pc = "set"
      /\ updater[p].pc \in {"create", "get"}
      /\ replica_path(updater[p]) = update_path(updater[p])

(***************************************************************************)
(* SpecBlip: nodes of the process disappear while the client stays          *)
(* CONNECTED; the data watches, the sweep and the update loop go on         *)
(***************************************************************************)

\* the process (replica_id 1) is running: its entry and PS nodes exist, are
\* watched and cached, and the table, the store and the health source agree on
\* the state s of the PS role
BInit ==
  \E s \in {UNKNOWN, AVAILABLE} :
    /\ conf = [AgentConfig(FALSE, FALSE, "ipv4") EXCEPT !.num_ps = 1]
    /\ qret = NoQuery
    /\ updater = [p \in {conf.replica_id} |->
                    LET u == [replica_id |-> conf.replica_id, meta |-> NoNeed, pc |-> "idle",
                              role |-> 1, real_path |-> <<>>]
                    IN  [u EXCEPT !.meta =
                           [n \in {replica_path([u EXCEPT !.role = k]) : k \in 1..Len(Roles)} |->
                              LET k == CHOOSE j \in 1..Len(Roles) :
                                         replica_path([u EXCEPT !.role = j]) = n
                              IN  [RegMeta(p, [u EXCEPT !.role = k]) EXCEPT
                                     !.stat = IF Roles[k].st = PS THEN s ELSE UNKNOWN]]]]
    /\ zk_nodes = [n \in DOMAIN updater[conf.replica_id].meta |->
                     [data |-> serialize(updater[conf.replica_id].meta[n]),
                      owner |-> conf.replica_id, ephemeral |-> TRUE]]
    /\ watched = DOMAIN zk_nodes
    /\ replicas = InitialCalls(EmptyCache, SeqOfSet(DOMAIN zk_nodes))
    /\ events = <<>>
    /\ last = NoCallback
    /\ born_empty = {}
    /\ zk_state = "CONNECTED"
    /\ has_lost = FALSE
    /\ should_poll = TRUE
    /\ should_update = TRUE
    /\ should_reregister = FALSE
    /\ lst_pc = "idle"
    /\ poll_pc = "sleep"
    /\ upd_pc = "sleep"
    /\ rr_pc = "sleep"
    /\ reg_calls = 0
    /\ ran_paused = {}
    /\ zk_tasks = {n[1] : n \in watched}
    /\ replicas_tmp = EmptyCache
    /\ need_register_replicas = NoNeed
    /\ sweep_log = NoSweep
    /\ lock = "free"
    /\ sequence = 0
    /\ mgr = [pc |-> "running", step |-> 0]
    /\ has_stop = [watcher |-> FALSE, updater |-> FALSE]
    /\ model_status = [k \in 1..Len(Roles) |->
                          Healthy(IF Roles[k].st = PS THEN s ELSE UNKNOWN)]
    /\ upd = NoUpdate
    /\ tree = NoTree
BNext ==
  \/ ZkDelete \/ Deliver
  \/ SweepList \/ SweepSwap \/ SweepCreate \/ SweepDone
  \/ UpdTick \/ DoUpdate

\* the client's thread makes every pending callback, and the sweep thread and
\* the update thread keep running
SpecBlip ==
  /\ BInit /\ [][BNext]_vars
  /\ WF_vars(Deliver)
  /\ WF_vars(SweepList \/ SweepSwap \/ SweepCreate \/ SweepDone)
  /\ WF_vars(UpdTick \/ DoUpdate)

\* C18: the PS node this process registered, when it disappears from the store
\* while the client stays CONNECTED, the sweep is not paused and the health is
\* stable, eventually exists in the store again.
C18_Original ==
  (<<TaskPath("", "", PS, 0), Str(1)>> \notin DOMAIN zk_nodes)
    ~> (<<TaskPath("", "", PS, 0), Str(1)>> \in DOMAIN zk_nodes)

(***************************************************************************)
(* SpecUpdate: the update loop of a registered process, against a health    *)
(* source that can give every kind of answer                                *)
(***************************************************************************)

\* the greatest version of a served model
MaxVersion == 2

\* the version entries a health answer is made of
VersionEntries == [version : 1..MaxVersion, state : ModelState, error_code : {OK, ERR}]

\* the answers of get_model_status: a raise, an empty list, one entry, or two
\* entries of different versions in either order
HealthAnswers ==
  {[raises |-> TRUE, list |-> <<>>], [raises |-> FALSE, list |-> <<>>]}
  \cup {[raises |-> FALSE, list |-> <<e>>] : e \in VersionEntries}
  \cup {[raises |-> FALSE, list |-> <<e[1], e[2]>>] :
          e \in {x \in VersionEntries \X VersionEntries : x[1].version # x[2].version}}

\* the process is registered and runs, its table and the store agree on some
\* states, and the health source holds some answer for every role
UInit ==
  \E s \in ModelState : \E t \in {UNKNOWN, AVAILABLE} :
    /\ conf = [AgentConfig(FALSE, FALSE, "ipv4") EXCEPT !.num_ps = 1]
    /\ qret = NoQuery
    /\ updater = [p \in {conf.replica_id} |->
                    LET u == [replica_id |-> conf.replica_id, meta |-> NoNeed, pc |-> "idle",
                              role |-> 1, real_path |-> <<>>]
                    IN  [u EXCEPT !.meta =
                           [n \in {replica_path([u EXCEPT !.role = k]) : k \in 1..Len(Roles)} |->
                              LET k == CHOOSE j \in 1..Len(Roles) :
                                         replica_path([u EXCEPT !.role = j]) = n
                              IN  [RegMeta(p, [u EXCEPT !.role = k]) EXCEPT
                                     !.stat = IF Roles[k].st = PS THEN s ELSE t]]]]
    /\ zk_nodes = [n \in DOMAIN updater[conf.replica_id].meta |->
                     [data |-> serialize(updater[conf.replica_id].meta[n]),
                      owner |-> conf.replica_id, ephemeral |-> TRUE]]
    /\ watched = DOMAIN zk_nodes
    /\ replicas = InitialCalls(EmptyCache, SeqOfSet(DOMAIN zk_nodes))
    /\ events = <<>>
    /\ last = NoCallback
    /\ born_empty = {}
    /\ zk_state = "CONNECTED"
    /\ has_lost = FALSE
    /\ should_poll = TRUE
    /\ should_update = TRUE
    /\ should_reregister = FALSE
    /\ lst_pc = "idle"
    /\ poll_pc = "sleep"
    /\ upd_pc = "sleep"
    /\ rr_pc = "sleep"
    /\ reg_calls = 0
    /\ ran_paused = {}
    /\ zk_tasks = {n[1] : n \in watched}
    /\ replicas_tmp = EmptyCache
    /\ need_register_replicas = NoNeed
    /\ sweep_log = NoSweep
    /\ lock = "free"
    /\ sequence = 0
    /\ mgr = [pc |-> "running", step |-> 0]
    /\ has_stop = [watcher |-> FALSE, updater |-> FALSE]
    /\ \E a \in HealthAnswers : \E b \in {Healthy(UNKNOWN), Healthy(AVAILABLE)} :
         model_status = [k \in 1..Len(Roles) |-> IF Roles[k].st = PS THEN a ELSE b]
    /\ upd = NoUpdate
    /\ tree = NoTree
UNext ==
  \/ UpdTick \/ DoUpdate \/ DoUpdateSet \/ DoUpdateCreate
  \/ ZkDelete \/ Deliver

SpecUpdate == UInit /\ [][UNext]_vars

\* C21: in one tick of the update loop, an error status met for one role does
\* not keep the remaining roles of model_names from being processed in the
\* same tick: the tick ends at a role whose selected entry carries an error
\* status only when that role is the last of model_names.
C21_Original ==
  [][LET ans == model_status[model_names[upd.name]]
     IN  (/\ upd_pc = "body"
          /\ upd_pc' = "sleep"
          /\ ~ans.raises
          /\ ans.list # <<>>
          /\ model_version_status(ans.list).error_code # OK)
         => upd.name = Len(Roles)]_vars

\* C22: no background loop dies on an exception: the sweep loop, the update
\* loop and the reconnect loop are out of their while loop only when their
\* stop flag is set.
C22_Original ==
  /\ poll_pc \in {"done", "dead"} => has_stop.watcher
  /\ upd_pc \in {"done", "dead"} => has_stop.updater
  /\ rr_pc \in {"done", "dead"} => has_stop.updater

\* C23: after a CONNECTED notification that follows a LOST, the polling flag
\* is set again, and a sweep body starts, only when the reconnect loop has
\* called register() for this episode and register() has returned.
C23_Original ==
  [][(\/ ~should_poll /\ should_poll'
      \/ /\ poll_pc = "sleep" /\ poll_pc' = "body"
         /\ should_reregister /\ zk_state = "CONNECTED")
     => (reg_calls >= 1 /\ rr_pc = "sleep")]_vars

\* C24: immediately after a sweep swaps its snapshot in, the cache equals the
\* snapshot the sweep built from its reads of the store, whatever the data
\* watch callbacks did to the cache before the swap.
C24_SwapWins ==
  [][(poll_pc = "swap" /\ poll_pc' = "create") => replicas' = replicas_tmp]_vars

\* C24 happens: a swap has just been made, and it brought back the entry that
\* the last callback, a DELETED one made after the sweep's reads, had removed
C24_Witness ==
  /\ poll_pc = "create"
  /\ replicas = replicas_tmp
  /\ last.type = DELETED
  /\ last.found
  /\ HasEntry(replicas, last.tp, Rnode(last.name))

\* C25: a DELETED callback removes the entry at (task path, replica id) from
\* the cache and leaves every other entry as it was; the task path's key goes
\* with its last entry and stays otherwise; a DELETED callback for an entry
\* that is not in the cache leaves the cache unchanged.
C25_DeletedRemoves ==
  [][(events # <<>> /\ events' = Tail(events) /\ Head(events).type = DELETED) =>
       LET tp == Head(events).tp
           r == Rnode(Head(events).name)
       IN  IF HasEntry(replicas, tp, r)
             THEN /\ ~HasEntry(replicas', tp, r)
                  /\ tp \in DOMAIN replicas' <=> DOMAIN replicas[tp] # {r}
                  /\ DOMAIN replicas' \subseteq DOMAIN replicas
                  /\ \A t \in DOMAIN replicas :
                       \A x \in DOMAIN replicas[t] \ (IF t = tp THEN {r} ELSE {}) :
                         /\ HasEntry(replicas', t, x)
                         /\ replicas'[t][x] = replicas[t][x]
                  /\ \A t \in DOMAIN replicas' : DOMAIN replicas'[t] \subseteq DOMAIN replicas[t]
             ELSE replicas' = replicas]_vars

\* C25 happens: a DELETED callback found its entry, the last of its task path,
\* and the task path is gone from the cache while another one is still there
C25_Witness ==
  /\ last.type = DELETED
  /\ last.found
  /\ last.tp \notin DOMAIN replicas
  /\ replicas # EmptyCache

(***************************************************************************)
(* SpecTree: the children watches of watch_data and the watches their       *)
(* callbacks install, level by level, down to the replica nodes             *)
(***************************************************************************)

\* the replica nodes of the run: two under one task, one under another task
\* (of another idc:cluster when the configuration is dc_aware)
TreeNodes(dc) ==
  IF dc THEN {<<TaskPath("lf", "c1", PS, 0), Str(0)>>, <<TaskPath("lf", "c1", PS, 0), Str(1)>>,
              <<TaskPath("hl", "c2", PS, 0), Str(0)>>}
  ELSE {<<TaskPath("", "", PS, 0), Str(0)>>, <<TaskPath("", "", PS, 0), Str(1)>>,
        <<TaskPath("", "", DENSE, 0), Str(0)>>}

\* os.path.join(path_prefix, ..): the names from path_prefix down to a task node
task_path(tp) ==
  (IF conf.dc_aware THEN <<<<tp.idc, tp.cluster>>>> ELSE <<>>) \o <<<<tp.st, Str(tp.idx)>>>>

\* the names from path_prefix down to a replica node
replica_node_path(n) == Append(task_path(n[1]), <<n[2]>>)

\* zk.get_children(path) as a ChildrenWatch passes it to its callback
get_children(path) ==
  LET tasks == {task_path(tp) : tp \in zk_tasks \cup {n[1] : n \in DOMAIN zk_nodes}}
      nodes == {<<>>} \cup UNION {{SubSeq(t, 1, i) : i \in 1..Len(t)} : t \in tasks}
                     \cup {replica_node_path(n) : n \in DOMAIN zk_nodes}
  IN  {q[Len(path) + 1] : q \in {x \in nodes : /\ Len(x) = Len(path) + 1
                                              /\ SubSeq(x, 1, Len(path)) = path}}

\* a callback that does not remember the children it has seen
Remember_Forget(seen, child) == seen

\* _idc_cluster.add / _tasks.add / _replicas.add (lines 107, 122, 137)
Remember(seen, child) == seen \cup {child}

\* the watch tree after one more watch was installed on `path`: a ChildrenWatch
\* with a new closure when the path is above the replica level, a DataWatch on
\* a replica node
Installed(t, path) ==
  [known |-> IF Len(path) < Len(task_path(TaskPath("", "", PS, 0))) + 1
               THEN [x \in DOMAIN t.known \cup {path} |->
                       IF x = path THEN {} ELSE t.known[x]]
               ELSE t.known,
   count |-> [x \in DOMAIN t.count \cup {path} |->
                IF x = path THEN (IF path \in DOMAIN t.count THEN t.count[path] + 1 ELSE 1)
                ELSE t.count[x]]]

\* idc_cluster_children_watch, task_children_watch and replica_children_watch
\* (lines 103-140) called with the children cs on the ChildrenWatch of `path`:
\* a child that is not in the closure's set is added to it and given a watch
\* one level down, and a ChildrenWatch calls its callback from its constructor
RECURSIVE children_watch(_, _, _)
children_watch(t, path, cs) ==
  IF cs = <<>> THEN t
  ELSE LET child == Head(cs)
           below == Append(path, child)
           t1 == Installed([t EXCEPT !.known[path] = Remember(@, child)], below)
           t2 == IF below \in DOMAIN t1.known
                   THEN children_watch(t1, below, SeqOfSet(get_children(below)))
                   ELSE t1
       IN  IF child \in t.known[path] THEN children_watch(t, path, Tail(cs))
           ELSE children_watch(t2, path, Tail(cs))

\* the replica nodes a DataWatch is installed on in the watch tree t
DataWatched(t) == {n \in TreeNodes(conf.dc_aware) : replica_node_path(n) \in DOMAIN t.count}

\* a store with some replica nodes, no watch installed yet
TreeInit ==
  /\ \E dc \in BOOLEAN : conf = AgentConfig(dc, FALSE, "ipv4")
  /\ \E N \in SUBSET TreeNodes(conf.dc_aware) :
       /\ zk_nodes = [n \in N |-> [data |-> serialize(QMeta(n[1], n[2], AVAILABLE)),
                                   owner |-> "other", ephemeral |-> TRUE]]
       /\ zk_tasks = {n[1] : n \in N}
  /\ replicas = EmptyCache
  /\ qret = NoQuery
  /\ watched = {}
  /\ events = <<>>
  /\ last = NoCallback
  /\ born_empty = {}
  /\ ConnInit
  /\ replicas_tmp = EmptyCache
  /\ need_register_replicas = NoNeed
  /\ sweep_log = NoSweep
  /\ lock = "free"
  /\ updater = <<>>
  /\ sequence = 0

\* watch_data lines 75-82: the ChildrenWatch on path_prefix, whose constructor
\* calls the callback with the children there are; every DataWatch installed
\* on the way makes its first call
InstallRoot ==
  LET t0 == Installed(tree, <<>>)
      t1 == children_watch(t0, <<>>, SeqOfSet(get_children(<<>>)))
  IN  /\ tree = NoTree
      /\ lock = "free"
      /\ tree' = t1
      /\ watched' = DataWatched(t1)
      /\ replicas' = InitialCalls(replicas, SeqOfSet(DataWatched(t1) \ watched))
      /\ UNCHANGED <<conf, qret, zk_nodes, events, last, born_empty, connvars, sweepvars,
                     updater, sequence, mgr, has_stop, model_status, upd>>

\* the client calls the callback of an installed ChildrenWatch with the
\* children its path has now, whether they changed or not
ChildrenCallback ==
  \E path \in DOMAIN tree.known :
    LET t1 == children_watch(tree, path, SeqOfSet(get_children(path)))
    IN  /\ lock = "free"
        /\ tree' = t1
        /\ watched' = DataWatched(t1)
        /\ replicas' = InitialCalls(replicas, SeqOfSet(DataWatched(t1) \ watched))
        /\ UNCHANGED <<conf, qret, zk_nodes, events, last, born_empty, connvars, sweepvars,
                       updater, sequence, mgr, has_stop, model_status, upd>>

\* a replica registers: its node is created, with its parents; a DataWatch
\* that is on the node's path already is told
TreeCreate ==
  \E n \in TreeNodes(conf.dc_aware) \ DOMAIN zk_nodes :
    LET data == serialize(QMeta(n[1], n[2], AVAILABLE))
    IN  /\ n \in watched => Len(events) < MaxPending
        /\ zk_nodes' = [k \in DOMAIN zk_nodes \cup {n} |->
                          IF k = n THEN [data |-> data, owner |-> "other", ephemeral |-> TRUE]
                          ELSE zk_nodes[k]]
        /\ zk_tasks' = zk_tasks \cup {n[1]}
        /\ events' = IF n \in watched THEN Append(events, Event(n, data, CREATED))
                     ELSE events
        /\ UNCHANGED <<conf, replicas, qret, watched, last, born_empty, connvars,
                       replicas_tmp, need_register_replicas, sweep_log, lock, regvars>>

\* a replica's session ends: its node is deleted, and a DataWatch on it is told
TreeDelete ==
  \E n \in DOMAIN zk_nodes :
    /\ n \in watched => Len(events) < MaxPending
    /\ zk_nodes' = [k \in DOMAIN zk_nodes \ {n} |-> zk_nodes[k]]
    /\ events' = IF n \in watched THEN Append(events, Event(n, NoneData, DELETED))
                 ELSE events
    /\ UNCHANGED <<conf, replicas, qret, watched, last, born_empty, connvars, sweepvars,
                   regvars>>

TreeNext ==
  \/ InstallRoot \/ ChildrenCallback \/ TreeCreate \/ TreeDelete \/ Deliver

SpecTree == TreeInit /\ [][TreeNext]_vars

\* C26: whatever callbacks the children watches get, every child a callback
\* has discovered has exactly one watch one level down: no locality path or
\* task path has more than one ChildrenWatch, no replica path more than one
\* DataWatch, and each watch belongs to a discovered child.
C26_OneWatchPerPath ==
  /\ \A path \in DOMAIN tree.count : tree.count[path] = 1
  /\ \A path \in DOMAIN tree.known :
       \A child \in tree.known[path] : Append(path, child) \in DOMAIN tree.count
  /\ \A path \in DOMAIN tree.count :
       \/ path = <<>>
       \/ path[Len(path)] \in tree.known[SubSeq(path, 1, Len(path) - 1)]

\* C26 happens: every replica node has been discovered and watched, one of
\* them was deleted afterwards, and a callback listed the children that are
\* left, all known already
C26_Witness ==
  /\ DataWatched(tree) = TreeNodes(conf.dc_aware)
  /\ DOMAIN zk_nodes # TreeNodes(conf.dc_aware)
  /\ DOMAIN zk_nodes # {}
  /\ \A path \in DOMAIN tree.known : get_children(path) \subseteq tree.known[path]
  /\ last.type = DELETED

\* C27: when the health source answers with one or more version entries for
\* the role in hand, the state the update loop mirrors into the table is that
\* of the AVAILABLE entry of the highest version, and when no entry is
\* AVAILABLE that of the entry of the highest version, whatever its state.
C27_HealthSelection ==
  [][LET ans == model_status[model_names[upd.name]]
         l == ans.list
         among == IF \E i \in 1..Len(l) : l[i].state = AVAILABLE
                    THEN {i \in 1..Len(l) : l[i].state = AVAILABLE}
                    ELSE 1..Len(l)
         top == CHOOSE i \in among : \A j \in among : l[j].version <= l[i].version
     IN  (/\ upd_pc = "body"
          /\ upd_pc' # "body" \/ upd'.name # upd.name
          /\ ~ans.raises
          /\ l # <<>>
          /\ l[top].error_code = OK)
         => \A p \in DOMAIN updater :
              updater'[p].meta[update_path(updater[p])].stat = l[top].state]_vars

\* C27 happens: the answer had two entries, the one of the higher version not
\* AVAILABLE and the other AVAILABLE, the table held another state, and the
\* update loop stands before its store call with AVAILABLE
C27_Witness ==
  LET l == model_status[model_names[upd.name]].list
  IN  /\ upd_pc = "set"
      /\ Len(l) = 2
      /\ \E i, j \in 1..2 : /\ l[i].version > l[j].version
                             /\ l[i].state # AVAILABLE
                             /\ l[j].state = AVAILABLE
      /\ upd.replica_meta.stat = AVAILABLE

\* C28: when the health query for the role in hand raises, a table record
\* that is not UNKNOWN is set to UNKNOWN and the update loop goes on to push
\* it to the store; a table record that is UNKNOWN already is left alone, and
\* the update loop makes no store call for the role. The push writes the
\* record's bytes into the node, and creates the node, ephemeral, when it is
\* missing.
C28_QueryFails ==
  [][\A p \in DOMAIN updater :
       LET path == update_path(updater[p])
       IN  /\ (/\ upd_pc = "body"
               /\ upd_pc' # "body" \/ upd'.name # upd.name
               /\ model_status[model_names[upd.name]].raises)
              => IF updater[p].meta[path].stat # UNKNOWN
                   THEN /\ updater'[p].meta[path].stat = UNKNOWN
                        /\ upd_pc' = "set"
                        /\ upd'.replica_meta = updater'[p].meta[path]
                   ELSE /\ updater' = updater
                        /\ upd_pc' \in {"body", "sleep"}
                        /\ upd'.name # upd.name
                        /\ zk_nodes' = zk_nodes
           /\ (/\ upd_pc \in {"set", "create"}
               /\ upd_pc' \in {"body", "sleep"}
               /\ upd'.set # upd.set)
              => /\ path \in DOMAIN zk_nodes'
                 /\ zk_nodes'[path].data = serialize(upd.replica_meta)
                 /\ path \notin DOMAIN zk_nodes => zk_nodes'[path].ephemeral]_vars

\* C28 happens: the query for PS task 0 raises, the table held AVAILABLE, the
\* node had been deleted, and the update loop has created it again with the
\* record in state UNKNOWN
C28_Witness ==
  LET path == <<TaskPath("", "", PS, 0), Str(1)>>
  IN  /\ model_status[model_names[1]].raises
      /\ <<path, UNKNOWN>> \in upd.set
      /\ path \in DOMAIN zk_nodes
      /\ zk_nodes[path].data = serialize(updater[1].meta[path])
      /\ updater[1].meta[path].stat = UNKNOWN
      /\ last.type = DELETED
      /\ last.tp = path[1]

\* C30: when the health query succeeds, the update loop goes on to its store
\* call exactly when the resolved state differs from the state in the table;
\* when the two are equal the step changes neither the table nor the store.
C30_WriteIffDiffers ==
  [][LET ans == model_status[model_names[upd.name]]
     IN  (/\ upd_pc = "body"
          /\ upd_pc' # "body" \/ upd'.name # upd.name
          /\ ~ans.raises
          /\ ans.list # <<>>
          /\ model_version_status(ans.list).error_code = OK)
         => \A p \in DOMAIN updater :
              LET path == update_path(updater[p])
                  stat == model_version_status(ans.list).state
              IN  /\ upd_pc' = "set" <=> updater[p].meta[path].stat # stat
                  /\ upd_pc' = "set" => /\ updater'[p].meta[path].stat = stat
                                        /\ upd'.replica_meta = updater'[p].meta[path]
                  /\ updater[p].meta[path].stat = stat
                       => /\ updater' = updater
                          /\ zk_nodes' = zk_nodes
                          /\ upd'.set = upd.set]_vars

\* C30 happens: one tick is over in which the state of PS task 0 differed and
\* was written to the store, and the state of the entry was the table's and
\* nothing was written for it
C30_Witness ==
  LET ps == <<TaskPath("", "", PS, 0), Str(1)>>
  IN  /\ upd_pc = "sleep"
      /\ upd.name = 1
      /\ \E s \in ModelState : upd.set = {<<ps, s>>}
      /\ ~model_status[model_names[2]].raises
      /\ \A path \in DOMAIN updater[1].meta \ {ps} :
           updater[1].meta[path].stat = model_status[model_names[2]].list[1].state

(***************************************************************************)
(* SpecRace: register() of the reconnect loop and the update loop make      *)
(* their store calls while nodes come and go                                *)
(***************************************************************************)

\* the process is registered and runs, and its session was lost and
\* re-established once before: the re-register flag is set for good
RaceInit ==
  \E s \in {UNKNOWN, AVAILABLE} : \E h \in {UNKNOWN, AVAILABLE} :
    /\ conf = [AgentConfig(FALSE, FALSE, "ipv4") EXCEPT !.num_ps = 1]
    /\ qret = NoQuery
    /\ updater = [p \in {conf.replica_id} |->
                    LET u == [replica_id |-> conf.replica_id, meta |-> NoNeed, pc |-> "idle",
                              role |-> 1, real_path |-> <<>>]
                    IN  [u EXCEPT !.meta =
                           [n \in {replica_path([u EXCEPT !.role = k]) : k \in 1..Len(Roles)} |->
                              LET k == CHOOSE j \in 1..Len(Roles) :
                                         replica_path([u EXCEPT !.role = j]) = n
                              IN  [RegMeta(p, [u EXCEPT !.role = k]) EXCEPT
                                     !.stat = IF Roles[k].st = PS THEN s ELSE UNKNOWN]]]]
    /\ zk_nodes = [n \in DOMAIN updater[conf.replica_id].meta |->
                     [data |-> serialize(updater[conf.replica_id].meta[n]),
                      owner |-> conf.replica_id, ephemeral |-> TRUE]]
    /\ watched = DOMAIN zk_nodes
    /\ replicas = InitialCalls(EmptyCache, SeqOfSet(DOMAIN zk_nodes))
    /\ events = <<>>
    /\ last = NoCallback
    /\ born_empty = {}
    /\ zk_state = "CONNECTED"
    /\ has_lost = FALSE
    /\ should_poll = TRUE
    /\ should_update = TRUE
    /\ should_reregister = TRUE
    /\ lst_pc = "idle"
    /\ poll_pc = "sleep"
    /\ upd_pc = "sleep"
    /\ rr_pc = "sleep"
    /\ reg_calls = 0
    /\ ran_paused = {}
    /\ zk_tasks = {n[1] : n \in watched}
    /\ replicas_tmp = EmptyCache
    /\ need_register_replicas = NoNeed
    /\ sweep_log = NoSweep
    /\ lock = "free"
    /\ sequence = 0
    /\ mgr = [pc |-> "running", step |-> 0]
    /\ has_stop = [watcher |-> FALSE, updater |-> FALSE]
    /\ model_status = [k \in 1..Len(Roles) |->
                          Healthy(IF Roles[k].st = PS THEN h ELSE UNKNOWN)]
    /\ upd = NoUpdate
    /\ tree = NoTree

\* _do_register lines 503-504: zk.exists found the node and zk.get finds it
\* gone: NoNodeError leaves _do_register and register(), and _reregister,
\* which has no try, ends with it
DoRegisterNoNode ==
  \E p \in DOMAIN updater :
    /\ updater[p].pc = "get"
    /\ replica_path(updater[p]) \notin DOMAIN zk_nodes
    /\ updater' = [updater EXCEPT ![p].pc = "idle", ![p].role = 1]
    /\ rr_pc' = IF rr_pc = "register" THEN "dead" ELSE rr_pc
    /\ UNCHANGED <<datavars, zk_state, has_lost, should_poll, should_update,
                   should_reregister, lst_pc, poll_pc, upd_pc, reg_calls, ran_paused,
                   sweepvars, sequence, mgrvars>>

RaceNext ==
  \/ RrTick \/ DoRegisterExists \/ DoRegisterCreate \/ DoRegisterGet \/ DoRegisterNoNode
  \/ RrRegisterReturns
  \/ UpdTick \/ DoUpdate \/ DoUpdateSet \/ DoUpdateCreate
  \/ ZkDelete \/ Deliver

SpecRace == RaceInit /\ [][RaceNext]_vars

\* C29: the store errors of _do_register and _do_update are recovered by the
\* alternate operation and none leaves them: the zk.get of _do_register finds
\* the node that zk.exists found, and the zk.create that _do_update falls
\* back to finds the node still missing.
C29_Original ==
  [][\A p \in DOMAIN updater :
       /\ (updater[p].pc = "get" /\ updater'[p].pc # "get")
            => replica_path(updater[p]) \in DOMAIN zk_nodes
       /\ (upd_pc = "create" /\ upd_pc' # "create")
            => update_path(updater[p]) \notin DOMAIN zk_nodes]_vars

\* C31: _do_register creates the node, ephemeral and with the record's bytes,
\* when the node does not exist; it overwrites a node that holds other bytes;
\* and it leaves the store alone when the node holds the very bytes, which is
\* what a second register() meets when no health update came in between.
C31_RegisterIdempotent ==
  [][\A p \in DOMAIN updater :
       LET u == updater[p]
           path == replica_path(u)
           bytes == serialize(RegMeta(p, u))
       IN  /\ (u.pc = "create" /\ updater'[p].pc # "create")
              => /\ path \in DOMAIN zk_nodes'
                 /\ zk_nodes'[path].data = bytes
                 /\ path \notin DOMAIN zk_nodes => zk_nodes'[path].ephemeral
           /\ (u.pc = "get" /\ updater'[p].pc # "get" /\ path \in DOMAIN zk_nodes)
              => /\ path \in DOMAIN zk_nodes'
                 /\ zk_nodes'[path].data = bytes
                 /\ zk_nodes[path].data = bytes => (zk_nodes' = zk_nodes /\ events' = events)
                 /\ zk_nodes[path].data # bytes => zk_nodes' # zk_nodes]_vars

\* C31 happens: the reconnect loop has called register() twice and is back in
\* its sleep, no health update was written, and the store was never written
\* or told of a change: the nodes hold the bytes they had from the start
C31_Witness ==
  /\ reg_calls = 2
  /\ rr_pc = "sleep"
  /\ upd.set = {}
  /\ events = <<>>
  /\ last = NoCallback
  /\ \A p \in DOMAIN updater :
       /\ updater[p].pc = "idle"
       /\ \A path \in DOMAIN updater[p].meta :
            /\ path \in DOMAIN zk_nodes
            /\ zk_nodes[path].data = serialize(updater[p].meta[path])


(***************************************************************************)
(* SpecRoles: register() under every deploy type and shard layout           *)
(***************************************************************************)

MaxPs == 3

\* one process with a known replica id, an empty store, and a configuration
\* drawn from the deploy types, the PS counts and the shard layouts
RolesInit ==
  /\ \E dt \in {MIXED, ENTRY, PS, DENSE}, n \in 0..MaxPs, sh \in 1..2, da \in BOOLEAN :
       \E id \in 0..(sh - 1) :
         conf = [AgentConfig(FALSE, FALSE, "ipv4") EXCEPT
                   !.deploy_type = dt, !.num_ps = n, !.num_shard = sh,
                   !.shard_id = id, !.dense_alone = da]
  /\ replicas = EmptyCache
  /\ qret = NoQuery
  /\ zk_nodes = NoNodes
  /\ watched = {}
  /\ events = <<>>
  /\ last = NoCallback
  /\ born_empty = {}
  /\ ConnInit
  /\ SweepIdleInit
  /\ updater = [p \in {1} |-> [replica_id |-> 1, meta |-> NoNeed, pc |-> "idle",
                               role |-> 1, real_path |-> <<>>]]
  /\ sequence = 0

RolesNext == Register \/ DoRegisterExists \/ DoRegisterCreate \/ DoRegisterGet

SpecRoles == RolesInit /\ [][RolesNext]_vars

\* C32: register() registers exactly the roles this process hosts: the entry
\* path when the deploy type is MIXED or ENTRY, the PS path of every task_id in
\* [0, num_ps) with task_id % num_shard = shard_id when it is MIXED or PS, and
\* dense task 0 when dense_alone is set and it is MIXED or DENSE; model_names
\* yields the same set of roles.  While register() runs the table and the
\* store hold only such paths, and once it has returned they hold all of them.
C32_RegistersHostedRoles ==
  LET hosted ==
        (IF conf.deploy_type \in {MIXED, ENTRY} THEN {[st |-> ENTRY, idx |-> 0]} ELSE {})
        \cup (IF conf.deploy_type \in {MIXED, PS}
                THEN {[st |-> PS, idx |-> t] :
                        t \in {i \in 0..(conf.num_ps - 1) : i % conf.num_shard = conf.shard_id}}
                ELSE {})
        \cup (IF conf.dense_alone /\ conf.deploy_type \in {MIXED, DENSE}
                THEN {[st |-> DENSE, idx |-> 0]} ELSE {})
      path(r, id) == <<TaskPath("", "", r.st, r.idx),
                       IF r.st = ENTRY THEN Pad(id, 11) ELSE Str(id)>>
  IN  /\ {names[k] : k \in DOMAIN names} = hosted
      /\ {Roles[k] : k \in DOMAIN Roles} = hosted
      /\ \A p \in DOMAIN updater :
           LET paths == {path(r, updater[p].replica_id) : r \in hosted} IN
           /\ DOMAIN updater[p].meta \subseteq paths
           /\ DOMAIN zk_nodes \subseteq paths
           /\ updater[p].pc = "idle" =>
                \/ updater[p].meta = NoNeed /\ zk_nodes = NoNodes
                \/ DOMAIN updater[p].meta = paths /\ DOMAIN zk_nodes = paths

\* C32 witness: shard 1 of 2 of a MIXED deployment with three PS tasks and a
\* standalone dense server has registered its entry, PS task 1 and dense task 0
C32_Witness ==
  /\ conf.deploy_type = MIXED /\ conf.num_ps = 3 /\ conf.num_shard = 2
  /\ conf.shard_id = 1 /\ conf.dense_alone
  /\ 1 \in DOMAIN updater
  /\ updater[1].pc = "idle"
  /\ DOMAIN zk_nodes = {<<TaskPath("", "", ENTRY, 0), Pad(1, 11)>>,
                        <<TaskPath("", "", PS, 1), Str(1)>>,
                        <<TaskPath("", "", DENSE, 0), Str(1)>>}
  /\ DOMAIN updater[1].meta = DOMAIN zk_nodes


\* C33: a SUSPENDED notification, and a CONNECTED notification with no LOST
\* recorded, are no-ops: the Listener's has-lost flag, the Watcher's polling
\* flag and the Updater's update and re-register flags are all left as they were.
C33_SuspendedAndPlainConnectedNoOps ==
  [][(\/ zk_state # "SUSPENDED" /\ zk_state' = "SUSPENDED"
      \/ zk_state # "CONNECTED" /\ zk_state' = "CONNECTED" /\ ~has_lost)
       => UNCHANGED <<has_lost, should_poll, should_update, should_reregister>>]_vars

\* C33 witness: the session is suspended after a SUSPENDED notification with no
\* loss recorded, and every flag still has its initial value while the sweep is
\* in its work body
C33_Witness ==
  /\ zk_state = "SUSPENDED"
  /\ lst_pc = "idle"
  /\ ~has_lost /\ should_poll /\ should_update /\ ~should_reregister
  /\ poll_pc = "body"


(***************************************************************************)
(* SpecStop: start() and stop() of one process with its loops scheduled     *)
(***************************************************************************)

StopNext ==
  \/ StartRegister \/ DoRegisterExists \/ DoRegisterCreate \/ WatchData \/ UpdaterStart
  \/ HealthChange \/ UpdTick \/ DoUpdate \/ DoUpdateSet \/ RrTick \/ Deliver
  \/ SweepList \/ SweepSwap \/ SweepDone
  \/ LoopExit \/ StopUpdater \/ JoinUpdater \/ StopWatcher \/ JoinWatcher \/ StopReturns

\* Every store and health call in flight returns and every sleep ends (weak
\* fairness of the steps of the loop bodies and of the caller of stop() once
\* it is inside stop()).  Each iteration of a loop
\* begins with `while not self._has_stop` (lines 187, 589, 672): a loop that
\* passes its head again and again with the flag set takes the exit (strong
\* fairness of each loop's exit).  The sweep holds the cache lock for its swap
\* and its creates only, once per sleep of 60 seconds: a callback that waits
\* for the lock gets it (strong fairness of the delivery).  Nothing makes the
\* caller call stop().
SpecStop ==
  /\ LInit /\ [][StopNext]_vars
  /\ WF_vars(UpdTick) /\ WF_vars(DoUpdate) /\ WF_vars(DoUpdateSet)
  /\ WF_vars(RrTick)
  /\ WF_vars(SweepList) /\ WF_vars(SweepSwap) /\ WF_vars(SweepDone)
  /\ SF_vars(Deliver)
  /\ SF_vars(LoopExit /\ poll_pc' = "done")
  /\ SF_vars(LoopExit /\ upd_pc' = "done")
  /\ SF_vars(LoopExit /\ rr_pc' = "done")
  /\ WF_vars(JoinUpdater) /\ WF_vars(StopWatcher) /\ WF_vars(JoinWatcher)
  /\ WF_vars(StopReturns)

\* C34: cooperative shutdown terminates.  Once the Updater's stop flag is set
\* its update loop and its reconnect loop end, once the Watcher's stop flag is
\* set its sweep loop ends, and a stop() that has set the first flag returns.
C34_StopTerminates ==
  (has_stop.updater \/ has_stop.watcher) ~>
    /\ mgr.pc = "stopped"
    /\ upd_pc \in Terminated /\ rr_pc \in Terminated /\ poll_pc \in Terminated

\* C34 witness: stop() has returned after all three loops were started, the
\* update loop having written a state to the store before it ended
C34_Witness ==
  /\ mgr.pc = "stopped"
  /\ poll_pc = "done" /\ upd_pc = "done" /\ rr_pc = "done"
  /\ upd.set # {}


\* C35: whenever neither register() nor a health update is in progress and a
\* node of this process exists in the store, the state stored in the node is
\* the state the Updater's table records for that path.
C35_Original ==
  \A p \in DOMAIN updater :
    (updater[p].pc = "idle" /\ upd_pc = "sleep" /\ rr_pc # "register") =>
      \A path \in DOMAIN updater[p].meta \cap DOMAIN zk_nodes :
        deserialize(zk_nodes[path].data).stat = updater[p].meta[path].stat


\* C36: the data-watch callback never raises.  Each callback made with a
\* payload that is not empty completes, whatever its event type and whatever
\* the sweep's swaps and stop()'s clear have left in the cache, and when it
\* has completed for an initial call, a CREATED or a CHANGED event the cache
\* holds the delivered payload for the node.
C36_Original ==
  [][(Len(events') < Len(events) /\ ~IsEmptyData(Head(events).data)) =>
       LET e == Head(events) IN
       /\ last'.outcome = "done"
       /\ e.type \in {INITIAL, CREATED, CHANGED} =>
            /\ HasEntry(replicas', e.tp, Rnode(e.name))
            /\ replicas'[e.tp][Rnode(e.name)] = deserialize(e.data)]_vars


\* C37: freshness is never lost to a sweep.  When the latest data-watch
\* callback has put a node's payload in the cache and the node still exists
\* with that payload, a sweep's swap leaves the node's entry in the cache with
\* that payload, even when the sweep listed the tree before the callback ran.
C37_Original ==
  [][(poll_pc = "swap" /\ poll_pc' = "create") =>
       \A n \in DOMAIN zk_nodes :
         (/\ last.type \in {INITIAL, CREATED, CHANGED}
          /\ last.outcome = "done"
          /\ last.tp = n[1] /\ last.name = n[2]
          /\ last.data = zk_nodes[n].data
          /\ HasEntry(replicas, n[1], Rnode(n[2]))
          /\ replicas[n[1]][Rnode(n[2])] = deserialize(zk_nodes[n].data))
         => /\ HasEntry(replicas', n[1], Rnode(n[2]))
            /\ replicas'[n[1]][Rnode(n[2])] = deserialize(zk_nodes[n].data)]_vars


\* C38 as stated: whenever a sweep completes, and the tree changes no more
\* from then on, the entries of the cache are exactly the existing replica
\* nodes, each with its current payload.
C38_Original ==
  [][(poll_pc = "create" /\ poll_pc' = "sleep")
     => /\ Entries(replicas') = {Slot(n) : n \in DOMAIN zk_nodes'}
        /\ \A n \in DOMAIN zk_nodes' :
             replicas'[n[1]][Rnode(n[2])] = deserialize(zk_nodes'[n].data)]_vars

\* C38 amended: eventual consistency.  When a sweep completes and the tree has not
\* changed since the sweep began to list it (no other party touched it and the
\* sweep re-created nothing), the entries of the cache are exactly the existing
\* replica nodes, each with its current payload, with no callback's help.
C38_SweepConverges ==
  [][(/\ poll_pc = "create" /\ poll_pc' = "sleep"
      /\ sweep_log.clean_cur
      /\ \A h \in sweep_log.heals : h[2] # "created")
     => /\ Entries(replicas') = {Slot(n) : n \in DOMAIN zk_nodes'}
        /\ \A n \in DOMAIN zk_nodes' :
             replicas'[n[1]][Rnode(n[2])] = deserialize(zk_nodes'[n].data)]_vars

\* C38 witness: a sweep of an unchanged tree has completed and left the cache
\* with exactly the existing nodes, two of them, where the cache the sweep
\* before it had left was a different one; no callback was ever made
C38_Witness ==
  /\ poll_pc = "sleep"
  /\ lock = "free"
  /\ sweep_log.swaps >= 2
  /\ sweep_log.clean_cur
  /\ \A h \in sweep_log.heals : h[2] # "created"
  /\ sweep_log.first # sweep_log.second
  /\ replicas = sweep_log.second
  /\ Cardinality(DOMAIN zk_nodes) = 2
  /\ Entries(replicas) = {Slot(n) : n \in DOMAIN zk_nodes}
  /\ last = NoCallback


\* C39: in every reachable state the cache has no task path mapped to an empty
\* replica map, a sweep that lists a task node with no replica children
\* included.
C39_Original == \A tp \in DOMAIN replicas : DOMAIN replicas[tp] # {}


\* C40: after ReplicaWatcher.stop() has returned the cache stays empty and the
\* queries return no address, whatever data-watch callbacks are still made.
C40_Original ==
  mgr.pc \in {"return", "stopped"} =>
    /\ replicas = EmptyCache
    /\ \A st \in ServerTypes : \A idx \in 0..1 :
         Len(get_replicas(replicas, st, idx, NoneArg, NoneArg)) = 0

====
